---- MODULE Spec2Model ----
(***************************************************************************)
(* Model of the Nova Sonic voice-agent backend (ai-demo-3/backend/app).    *)
(*                                                                         *)
(* The backend is a single asyncio process.  A coroutine runs atomically   *)
(* from one await that suspends to the next, so every action below is one  *)
(* such segment of a handler.  The module holds four components, each with *)
(* its own next-state relation over the shared variables:                  *)
(*                                                                         *)
(*   SpecRegistry  SessionManager: create_session, end_session, idle sweep *)
(*   SpecStream    NovaSonicClient: one session's provider-bound events    *)
(*   SpecOutput    output_subject fan-out and the SSE / WebSocket senders  *)
(*   SpecTools     dispatch_tool_call / execute_tool as pure functions     *)
(***************************************************************************)
EXTENDS Integers, Sequences, FiniteSets, TLC

(***************************************************************************)
(* Bounds of the model.                                                    *)
(***************************************************************************)
\* settings.max_concurrent_sessions (config.py:38 sets 100), scaled down
MaxConcurrentSessions == 1
\* settings.session_timeout (config.py:37 sets 300 s), in clock ticks
SessionTimeout == 1
\* number of NovaSonicClient objects (uuid session ids) ever constructed
MaxSessions == 2
\* the clock datetime.utcnow() runs from 0 to MaxTime
MaxTime == 2

Sids == 1..MaxSessions
\* the request handlers that may be inside create_session at the same time
Creators == {"c1", "c2"}
\* end_session is called by a client request (DELETE /session/{id}, the
\* WebSocket handler's finally block) and by the idle sweep
Enders == {"client", "sweep"}
NoSid == 0

\* the session whose NovaSonicClient the stream component follows
StreamSid == 1
\* coroutines that may be inside NovaSonicClient.close() at the same time
Closers == {"k1", "k2"}
\* toolUse events the provider sends to the followed session
MaxToolUses == 1
\* client requests (audio chunk, audio start, audio end) on that session
MaxClientEvents == 1
\* contentStart / textOutput / audioOutput events the provider sends to it
MaxProviderEvents == 2

VARIABLES
  \* ---- SessionManager -------------------------------------------------
  sessions,       \* keys of SessionManager.sessions
  session_info,   \* session id -> status ("none": no entry)
  info_order,     \* insertion order of the session_info dict
  last_activity,  \* session id -> SessionInfo.last_activity
  is_active,      \* session id -> NovaSonicClient.is_active
  now,            \* datetime.utcnow()
  nextSid,        \* the next fresh session id
  opened,         \* session ids whose provider stream open was requested
  crPc,           \* create_session caller -> "idle" | "init"
  crSid,          \* create_session caller -> the client it constructed
  crRaised,       \* what the last create_session call to return raised
  endPc,          \* end_session caller -> "idle" | "closing"
  endSid,         \* end_session caller -> the id it is ending
  sweepList,      \* sessions_to_end still to be ended
  shutPc,         \* shutdown(): "idle" | "stopping" | "closing" |
                  \* "returned" | "hung"
  shutSid,        \* the id shutdown() is ending
  shutList,       \* session_ids of shutdown() still to be ended
  \* ---- NovaSonicClient of session StreamSid ------------------------------
  stream,         \* stream_response: "none" | "open" | "failed" | "closed"
  sent,           \* events handed to input_stream.send, in call order
  respPc,         \* where response_task (_process_responses) is suspended
  respCancel,     \* response_task.cancel() was called, not yet delivered
  curTool,        \* the toolUse whose round trip is under way
  nRecv,          \* number of toolUse events received
  audioTasks,     \* created _handle_audio_input tasks that have not run yet
  audioStopped,   \* audio_subject.on_completed() was called
  nClient,        \* number of client requests made
  closePc,        \* close() caller -> where it is suspended
  \* ---- output path of session StreamSid -----------------------------------
  role,           \* client.role
  barge_in,       \* client.barge_in
  outStopped,     \* output_subject has completed or failed
  cons,           \* consumer -> "none" | "attached" | "ended"
  queue,          \* consumer -> the queue of its get_events_stream
  delivered,      \* consumer -> the messages sent to its client
  suppress_next_audio,  \* client.suppress_next_audio
  nProv,          \* number of output events received from the provider
  \* ---- dispatch_tool_call / execute_tool ---------------------------------
  toolPc,         \* "idle" | "handler" (awaiting the tool handler)
  toolCall,       \* arguments of the execute_tool call under way / last made
  handlerOut,     \* outcome of the handler in the last dispatch
  dispRet,        \* outcome of the last dispatch_tool_call
  execRet,        \* outcome of the last execute_tool
  \* ---- guardrails engine and audit log ------------------------------------
  gConfig,        \* the cached GuardrailsConfig (_config_cache)
  gPc,            \* "idle" | "checked" | "logged" | "unlogged" | "raised"
  gResult,        \* the check() call under way: its inputs and violations
  audit_logger,   \* _audit_logger: "none" | "ready"
  audit_entry,    \* the entry last written to the audit log file
  \* ---- functions called on their own --------------------------------------
  libCall,        \* the last call made: the function, its argument, its result
  \* the audit log directory
  log_files,      \* day -> the lines of guardrails_audit_<day>.ndjson
  utc_day,        \* the day datetime.utcnow() falls on
  \* the rule workbook and its cache (app/guardrails_loader.py)
  xlsx_file,      \* docs/guardrails.xlsx: its content and st_mtime
  config_cache,   \* _config_cache
  \* a ConversationSession (app/prompting.py)
  slots,          \* session.slots
  confirmed_slots,    \* session.confirmed_slots
  summary_read_back,  \* session.summary_read_back
  output_json,    \* session.output_json
  \* GuardrailsEngine.check reading the cached configuration
  check_call      \* the check() call under way and the generations it read

shutVars == <<shutPc, shutSid, shutList>>

regOnlyVars == <<sessions, session_info, info_order, last_activity,
                 now, nextSid, opened, crPc, crSid, crRaised,
                 endPc, endSid, sweepList, shutVars>>

regVars == <<regOnlyVars, is_active>>

strVars == <<stream, sent, respPc, respCancel, curTool, nRecv,
             audioTasks, audioStopped, nClient, closePc>>

outOnlyVars == <<role, barge_in, cons, delivered, suppress_next_audio, nProv>>

outVars == <<outOnlyVars, queue, outStopped>>

toolVars == <<toolPc, toolCall, handlerOut, dispRet, execRet>>

guardVars == <<gConfig, gPc, gResult>>

auditVars == <<audit_logger, audit_entry>>

sessVars == <<confirmed_slots, summary_read_back, output_json>>

libRestVars == <<log_files, utc_day, xlsx_file, config_cache, slots, sessVars,
                 check_call>>

libVars == <<libCall, libRestVars>>

vars == <<regVars, strVars, outVars, toolVars, guardVars, auditVars, libVars>>

(***************************************************************************)
(* Provider-bound events (services/nova_sonic_client.py)                   *)
(***************************************************************************)
\* one provider-bound event: its kind, the content name it carries and the
\* toolUseId or chunk number it carries
Ev(e, c, i) == [ev |-> e, content |-> c, id |-> i]

NoContent == <<"none", 0>>
\* self.content_name and self.audio_content_name, fixed in __init__
SystemContent == <<"system", 0>>
AudioContent == <<"audio", 0>>
\* tool_result_content_name = str(uuid.uuid4()), fresh in every
\* send_tool_result call; n counts the calls
ToolContent(n) == <<"tool", n>>

\* TOOL_DEFINITIONS: the tools declared to the provider
ToolDefinitions == {"getDateTool", "lookupHcpTool", "insertCallTool",
                    "emitN8nEventTool", "createFollowUpTaskTool"}

\* the toolConfiguration of the promptStart event: json.dumps of
\* TOOL_DEFINITIONS, carried here as the number of declared tools
ToolConfiguration == <<"tools", Cardinality(ToolDefinitions)>>

\* init_events with promptStart sent last, after the system prompt
InitEventsPromptLate ==
  << Ev("sessionStart", NoContent, 0),
     Ev("contentStart", SystemContent, 0),
     Ev("textInput", SystemContent, 0),
     Ev("contentEnd", SystemContent, 0),
     Ev("promptStart", ToolConfiguration, 0) >>

\* init_events of initialize_stream
InitEvents ==
  << Ev("sessionStart", NoContent, 0),
     Ev("promptStart", ToolConfiguration, 0),
     Ev("contentStart", SystemContent, 0),
     Ev("textInput", SystemContent, 0),
     Ev("contentEnd", SystemContent, 0) >>

\* initialize_stream on the client of session StreamSid, as far as the
\* provider stream is concerned: the stream opens (ok) and the five
\* initialization events are sent before the response task is created, or
\* the open times out or fails.  Nothing else holds a reference to the
\* client while the events are awaited, so the call is one step.
StreamOpened(ok) ==
  IF ok
    THEN /\ stream' = "open"
         /\ sent' = sent \o InitEvents
         /\ respPc' = "recv"
    ELSE /\ stream' = "failed"
         /\ UNCHANGED <<sent, respPc>>

strRestVars == <<respCancel, curTool, nRecv, audioTasks, audioStopped,
                 nClient, closePc>>

(***************************************************************************)
(* SessionManager (services/session_manager.py)                            *)
(***************************************************************************)
InitRegistry ==
  /\ sessions = {}
  /\ session_info = [s \in Sids |-> "none"]
  /\ info_order = <<>>
  /\ last_activity = [s \in Sids |-> 0]
  /\ is_active = [s \in Sids |-> FALSE]
  /\ now = 0
  /\ nextSid = 1
  /\ opened = {}
  /\ crPc = [p \in Creators |-> "idle"]
  /\ crSid = [p \in Creators |-> NoSid]
  /\ crRaised = "none"
  /\ endPc = [e \in Enders |-> "idle"]
  /\ endSid = [e \in Enders |-> NoSid]
  /\ sweepList = <<>>
  /\ shutPc = "idle"
  /\ shutSid = NoSid
  /\ shutList = <<>>

\* sum(1 for info in session_info.values() if info.status == ACTIVE)
ActiveSessions == Cardinality({s \in Sids : session_info[s] = "active"})

\* the capacity test with ">" in place of ">="
CapacityReachedOffByOne == ActiveSessions > MaxConcurrentSessions

\* if active_sessions >= settings.max_concurrent_sessions: raise ValueError
CapacityReached == ActiveSessions >= MaxConcurrentSessions

\* create_session up to "await client.initialize_stream()": the capacity
\* check, the NovaSonicClient constructor (a fresh uuid) and the request to
\* open the provider stream.
CreateBegin(p) ==
  /\ crPc[p] = "idle"
  /\ IF CapacityReached
       THEN /\ crRaised' = "capacity"
            /\ UNCHANGED <<crPc, crSid, nextSid, opened>>
       ELSE /\ nextSid <= MaxSessions
            /\ crPc' = [crPc EXCEPT ![p] = "init"]
            /\ crSid' = [crSid EXCEPT ![p] = nextSid]
            /\ UNCHANGED crRaised
            /\ nextSid' = nextSid + 1
            /\ opened' = opened \cup {nextSid}
  /\ UNCHANGED <<sessions, session_info, info_order, last_activity, is_active,
                 now, endPc, endSid, sweepList>>
  /\ UNCHANGED <<shutVars, strVars, outVars, toolVars>>
  /\ UNCHANGED <<guardVars, auditVars, libVars>>

\* initialize_stream returned: the session is stored with status ACTIVE.
CreateFinish(p) ==
  /\ crPc[p] = "init"
  /\ LET s == crSid[p] IN
       /\ is_active' = [is_active EXCEPT ![s] = TRUE]
       /\ sessions' = sessions \cup {s}
       /\ session_info' = [session_info EXCEPT ![s] = "active"]
       /\ info_order' = Append(info_order, s)
       /\ last_activity' = [last_activity EXCEPT ![s] = now]
  /\ crPc' = [crPc EXCEPT ![p] = "idle"]
  /\ crSid' = [crSid EXCEPT ![p] = NoSid]
  /\ crRaised' = "none"
  /\ IF crSid[p] = StreamSid
       THEN StreamOpened(TRUE) /\ UNCHANGED strRestVars
       ELSE UNCHANGED strVars
  /\ UNCHANGED <<now, nextSid, opened,
                 endPc, endSid, sweepList>>
  /\ UNCHANGED <<shutVars, outVars, toolVars>>
  /\ UNCHANGED <<guardVars, auditVars, libVars>>

\* create_session storing the session with status ERROR when
\* initialize_stream raised
CreateFailStored(p) ==
  /\ crPc[p] = "init"
  /\ is_active' = [is_active EXCEPT ![crSid[p]] = FALSE]
  /\ sessions' = sessions \cup {crSid[p]}
  /\ session_info' = [session_info EXCEPT ![crSid[p]] = "error"]
  /\ info_order' = Append(info_order, crSid[p])
  /\ crPc' = [crPc EXCEPT ![p] = "idle"]
  /\ crSid' = [crSid EXCEPT ![p] = NoSid]
  /\ crRaised' = "conn_error"
  /\ IF crSid[p] = StreamSid
       THEN StreamOpened(FALSE) /\ UNCHANGED strRestVars
       ELSE UNCHANGED strVars
  /\ UNCHANGED <<last_activity, now, nextSid, opened,
                 endPc, endSid, sweepList>>
  /\ UNCHANGED <<shutVars, outVars, toolVars>>
  /\ UNCHANGED <<guardVars, auditVars, libVars>>

\* initialize_stream raised (timeout or connection failure): is_active is
\* set False and the exception is re-raised; nothing is stored.
CreateFail(p) ==
  /\ crPc[p] = "init"
  /\ is_active' = [is_active EXCEPT ![crSid[p]] = FALSE]
  /\ crPc' = [crPc EXCEPT ![p] = "idle"]
  /\ crSid' = [crSid EXCEPT ![p] = NoSid]
  /\ crRaised' = "conn_error"
  /\ IF crSid[p] = StreamSid
       THEN StreamOpened(FALSE) /\ UNCHANGED strRestVars
       ELSE UNCHANGED strVars
  /\ UNCHANGED <<sessions, session_info, info_order, last_activity,
                 now, nextSid, opened,
                 endPc, endSid, sweepList>>
  /\ UNCHANGED <<shutVars, outVars, toolVars>>
  /\ UNCHANGED <<guardVars, auditVars, libVars>>

\* the SessionManager's two dicts, as end_session reads and writes them
Registry == [sessions |-> sessions, info |-> session_info, la |-> last_activity]

\* end_session after "await client.close()" returned normally: status ENDED
\* and last_activity are written, then "del self.sessions[session_id]"; its
\* KeyError lands in the except branch, which sets the status to ERROR.
AfterClose(r, s, t) ==
  IF s \in r.sessions
    THEN [sessions |-> r.sessions \ {s},
          info |-> [r.info EXCEPT ![s] = "ended"],
          la |-> [r.la EXCEPT ![s] = t]]
    ELSE [sessions |-> r.sessions,
          info |-> [r.info EXCEPT ![s] = "error"],
          la |-> [r.la EXCEPT ![s] = t]]

\* end_session when "await client.close()" raised: the except branch
AfterCloseRaised(r, s) == [r EXCEPT !.info[s] = "error"]

SetRegistry(r) ==
  /\ sessions' = r.sessions
  /\ session_info' = r.info
  /\ last_activity' = r.la

\* end_session(s) from a request handler (DELETE /session/{id}, the finally
\* block of the WebSocket handler), up to its first suspension: the lookup,
\* then close(), which returns at once when the client is not active.
ClientEndSession(s) ==
  /\ endPc["client"] = "idle"
  /\ IF s \notin sessions
       THEN UNCHANGED <<sessions, session_info, last_activity, endPc, endSid>>
       ELSE IF ~is_active[s]
         THEN /\ SetRegistry(AfterClose(Registry, s, now))
              /\ UNCHANGED <<endPc, endSid>>
         ELSE /\ endPc' = [endPc EXCEPT !["client"] = "closing"]
              /\ endSid' = [endSid EXCEPT !["client"] = s]
              /\ UNCHANGED <<sessions, session_info, last_activity>>
  /\ UNCHANGED <<info_order, is_active, now, nextSid, opened,
                 crPc, crSid, crRaised, sweepList>>
  /\ UNCHANGED <<shutVars, strVars, outVars, toolVars>>
  /\ UNCHANGED <<guardVars, auditVars, libVars>>

\* close() ran to its end: send_session_end_event set is_active False, then
\* input_stream.close() returned (ok) or raised; end_session finishes.
ClientEndSessionResume(ok) ==
  /\ endPc["client"] = "closing"
  /\ LET s == endSid["client"] IN
       /\ is_active' = [is_active EXCEPT ![s] = FALSE]
       /\ SetRegistry(IF ok THEN AfterClose(Registry, s, now)
                            ELSE AfterCloseRaised(Registry, s))
  /\ endPc' = [endPc EXCEPT !["client"] = "idle"]
  /\ endSid' = [endSid EXCEPT !["client"] = NoSid]
  /\ UNCHANGED <<info_order, now, nextSid, opened,
                 crPc, crSid, crRaised, sweepList>>
  /\ UNCHANGED <<shutVars, strVars, outVars, toolVars>>
  /\ UNCHANGED <<guardVars, auditVars, libVars>>

\* the first loop of cleanup_inactive_sessions: the ACTIVE sessions whose
\* inactive_duration > timeout_seconds, in dict order
SelectIdle(t) ==
  SelectSeq(info_order, LAMBDA s : session_info[s] = "active"
                                    /\ t - last_activity[s] > SessionTimeout)

\* "for session_id in sessions_to_end: await self.end_session(session_id)"
\* run as far as it goes without suspending: an id no longer registered and
\* a client no longer active are dealt with on the spot, the loop suspends
\* inside close() of the first client that is still active.
RECURSIVE SweepLoop(_, _, _, _)
SweepLoop(r, act, list, t) ==
  IF list = <<>>
    THEN [reg |-> r, list |-> <<>>, closing |-> NoSid]
    ELSE LET s == Head(list) IN
           IF s \notin r.sessions
             THEN SweepLoop(r, act, Tail(list), t)
             ELSE IF ~act[s]
               THEN SweepLoop(AfterClose(r, s, t), act, Tail(list), t)
               ELSE [reg |-> r, list |-> Tail(list), closing |-> s]

SweepSuspend(res) ==
  /\ SetRegistry(res.reg)
  /\ sweepList' = res.list
  /\ endSid' = [endSid EXCEPT !["sweep"] = res.closing]
  /\ endPc' = [endPc EXCEPT !["sweep"] =
                 IF res.closing = NoSid THEN "idle" ELSE "closing"]

\* cleanup_loop woke from "await asyncio.sleep(60)" and runs
\* cleanup_inactive_sessions up to its first suspension
SweepStart ==
  /\ endPc["sweep"] = "idle"
  /\ shutPc # "stopping"
  /\ SweepSuspend(SweepLoop(Registry, is_active, SelectIdle(now), now))
  /\ UNCHANGED <<info_order, is_active, now, nextSid, opened,
                 crPc, crSid, crRaised>>
  /\ UNCHANGED <<shutVars, strVars, outVars, toolVars>>
  /\ UNCHANGED <<guardVars, auditVars, libVars>>

\* the close() the sweep was waiting for ran to its end (returned or raised);
\* end_session finishes and the loop goes on to the next id
SweepResume(ok) ==
  /\ endPc["sweep"] = "closing"
  /\ shutPc # "stopping"
  /\ LET s == endSid["sweep"]
         act == [is_active EXCEPT ![s] = FALSE]
         r == IF ok THEN AfterClose(Registry, s, now)
                    ELSE AfterCloseRaised(Registry, s)
     IN /\ is_active' = act
        /\ SweepSuspend(SweepLoop(r, act, sweepList, now))
  /\ UNCHANGED <<info_order, now, nextSid, opened, crPc, crSid, crRaised>>
  /\ UNCHANGED <<shutVars, strVars, outVars, toolVars>>
  /\ UNCHANGED <<guardVars, auditVars, libVars>>

\* update_session_activity, as POST /audio/chunk calls it for a registered
\* session whose client is active
UpdateSessionActivity(s) ==
  /\ s \in sessions
  /\ is_active[s]
  /\ session_info[s] # "none"
  /\ last_activity' = [last_activity EXCEPT ![s] = now]
  /\ UNCHANGED <<sessions, session_info, info_order, is_active,
                 now, nextSid, opened, crPc, crSid, crRaised,
                 endPc, endSid, sweepList>>
  /\ UNCHANGED <<shutVars, strVars, outVars, toolVars>>
  /\ UNCHANGED <<guardVars, auditVars, libVars>>

Tick ==
  /\ now < MaxTime
  /\ now' = now + 1
  /\ UNCHANGED <<sessions, session_info, info_order, last_activity, is_active,
                 nextSid, opened, crPc, crSid, crRaised,
                 endPc, endSid, sweepList>>
  /\ UNCHANGED <<shutVars, strVars, outVars, toolVars>>
  /\ UNCHANGED <<guardVars, auditVars, libVars>>

\* shutdown() up to "await self._cleanup_task" in stop_cleanup_task: the
\* sweep task is cancelled and shutdown waits for it to end
ShutdownBegin ==
  /\ shutPc = "idle"
  /\ shutPc' = "stopping"
  /\ UNCHANGED <<sessions, session_info, info_order, last_activity, is_active,
                 now, nextSid, opened, crPc, crSid, crRaised,
                 endPc, endSid, sweepList, shutSid, shutList>>
  /\ UNCHANGED <<strVars, outVars, toolVars>>
  /\ UNCHANGED <<guardVars, auditVars, libVars>>

\* the CancelledError reaches the sweep task at the await it is suspended
\* in.  In asyncio.sleep it ends cleanup_loop.  Inside "await
\* client.close()" it either leaves close() and end_session (no "except
\* Exception" catches it) with the client still active or already set
\* inactive, or it is raised at "await self.response_task", where close()
\* swallows it: the sweep then goes on and the task shutdown waits for
\* never ends.
SweepCancelled(how) ==
  /\ shutPc = "stopping"
  /\ endPc["sweep"] \in {"idle", "closing"}
  /\ IF endPc["sweep"] = "idle" \/ how # "swallowed"
       THEN /\ endPc' = [endPc EXCEPT !["sweep"] = "stopped"]
            /\ endSid' = [endSid EXCEPT !["sweep"] = NoSid]
            /\ sweepList' = <<>>
            /\ is_active' = IF endPc["sweep"] = "closing" /\ how = "raised_inactive"
                               THEN [is_active EXCEPT ![endSid["sweep"]] = FALSE]
                               ELSE is_active
            /\ UNCHANGED shutPc
       ELSE /\ shutPc' = "hung"
            /\ UNCHANGED <<endPc, endSid, sweepList, is_active>>
  /\ UNCHANGED <<sessions, session_info, info_order, last_activity,
                 now, nextSid, opened, crPc, crSid, crRaised, shutSid, shutList>>
  /\ UNCHANGED <<strVars, outVars, toolVars>>
  /\ UNCHANGED <<guardVars, auditVars, libVars>>

\* list(self.sessions.keys()): the registered ids in insertion order
SessionIds == SelectSeq(info_order, LAMBDA s : s \in sessions)

ShutdownSuspend(res) ==
  /\ SetRegistry(res.reg)
  /\ shutList' = res.list
  /\ shutSid' = res.closing
  /\ shutPc' = IF res.closing = NoSid THEN "returned" ELSE "closing"

\* the sweep task has ended: shutdown() takes the registered ids and runs
\* "for session_id in session_ids: await self.end_session(session_id)" up
\* to its first suspension, or to its return
ShutdownResume ==
  /\ shutPc = "stopping"
  /\ endPc["sweep"] = "stopped"
  /\ ShutdownSuspend(SweepLoop(Registry, is_active, SessionIds, now))
  /\ UNCHANGED <<info_order, is_active, now, nextSid, opened,
                 crPc, crSid, crRaised, endPc, endSid, sweepList>>
  /\ UNCHANGED <<strVars, outVars, toolVars>>
  /\ UNCHANGED <<guardVars, auditVars, libVars>>

\* the close() shutdown() was waiting for ran to its end (returned or
\* raised); end_session finishes and the loop goes on to the next id
ShutdownCloseResume(ok) ==
  /\ shutPc = "closing"
  /\ LET s == shutSid
         act == [is_active EXCEPT ![s] = FALSE]
         r == IF ok THEN AfterClose(Registry, s, now)
                    ELSE AfterCloseRaised(Registry, s)
     IN /\ is_active' = act
        /\ ShutdownSuspend(SweepLoop(r, act, shutList, now))
  /\ UNCHANGED <<info_order, now, nextSid, opened, crPc, crSid, crRaised,
                 endPc, endSid, sweepList>>
  /\ UNCHANGED <<strVars, outVars, toolVars>>
  /\ UNCHANGED <<guardVars, auditVars, libVars>>

NextRegistry ==
  \/ \E p \in Creators : CreateBegin(p)
  \/ \E p \in Creators : CreateFinish(p)
  \/ \E p \in Creators : CreateFail(p)
  \/ \E s \in Sids : ClientEndSession(s)
  \/ \E ok \in BOOLEAN : ClientEndSessionResume(ok)
  \/ SweepStart
  \/ \E ok \in BOOLEAN : SweepResume(ok)
  \/ \E s \in Sids : UpdateSessionActivity(s)
  \/ Tick
  \/ ShutdownBegin
  \/ \E how \in {"raised_active", "raised_inactive", "swallowed"} :
       SweepCancelled(how)
  \/ ShutdownResume
  \/ \E ok \in BOOLEAN : ShutdownCloseResume(ok)

\* the registry while every close() returns normally and no shutdown runs:
\* sessions are created, ended by their clients and swept
NextOverlap ==
  \/ \E p \in Creators : CreateBegin(p)
  \/ \E p \in Creators : CreateFinish(p)
  \/ \E p \in Creators : CreateFail(p)
  \/ \E s \in Sids : ClientEndSession(s)
  \/ ClientEndSessionResume(TRUE)
  \/ SweepStart
  \/ SweepResume(TRUE)
  \/ \E s \in Sids : UpdateSessionActivity(s)
  \/ Tick

(***************************************************************************)
(* Tool dispatch (app/tools.py, NovaSonicClient.execute_tool)              *)
(***************************************************************************)
\* the keys of the handlers dict of dispatch_tool_call
HandlerNames == {"lookupHcpTool", "insertCallTool", "emitN8nEventTool",
                 "createFollowUpTaskTool"}

\* tool names a toolUse event may carry: the registered handlers, the tool
\* execute_tool answers itself, and a name nobody handles
ToolNames == HandlerNames \cup {"getDateTool", "noSuchTool"}

\* the tool names the followed session receives: one of each kind
StreamToolNames == {"lookupHcpTool", "getDateTool", "noSuchTool"}

\* the "content" strings a toolUse event may carry
ToolContents == {"{}", "{\"name\": \"harper\"}", "{\"name\": "}

EmptyObject == {}

\* json.loads on the strings of ToolContents: the decoded object (a set of
\* key/value pairs), or JSONDecodeError
JsonLoads(text) ==
  CASE text = "{}" -> [raised |-> FALSE, value |-> EmptyObject]
    [] text = "{\"name\": \"harper\"}"
         -> [raised |-> FALSE, value |-> {<<"name", "harper">>}]
    [] OTHER -> [raised |-> TRUE, value |-> EmptyObject]

\* _handle_response_event: "try: tool_input = json.loads(tool_input_str)
\* except json.JSONDecodeError: tool_input = {}"
ParseToolInput(text) ==
  LET r == JsonLoads(text) IN IF r.raised THEN EmptyObject ELSE r.value

ToolInputs == {ParseToolInput(t) : t \in ToolContents}

\* a result dict: the keys it holds and the values the claims look at
Result(keys, error, tool_name, available_tools) ==
  [keys |-> keys, error |-> error, tool_name |-> tool_name,
   available_tools |-> available_tools]

NoResult == Result({}, "", "", {})

\* how a call ends: it returns a dict or raises an Exception
Returned(v) == [raised |-> FALSE, exc |-> "", value |-> v]
Raised(e) == [raised |-> TRUE, exc |-> e, value |-> NoResult]
NoCall == [raised |-> FALSE, exc |-> "no call", value |-> NoResult]

\* what "await handler(arguments)" may do: return its result dict, return
\* the error dict of its own except clause, or raise (for example on an
\* argument that is not a string)
HandlerOutcomes ==
  { Returned(Result({"success"}, "", "", {})),
    Returned(Result({"success", "error"}, "handler error", "", {})),
    Raised("AttributeError") }

\* dispatch_tool_call without the try/except around the handler call
DispatchToolCallUncaught(tool_name, h) ==
  IF tool_name \notin HandlerNames
    THEN Returned(Result({"error", "available_tools"},
                         "Unknown tool", "", HandlerNames))
    ELSE h

\* dispatch_tool_call(tool_name, arguments) for a handler outcome h
DispatchToolCall(tool_name, h) ==
  IF tool_name \notin HandlerNames
    THEN Returned(Result({"error", "available_tools"},
                         "Unknown tool", "", HandlerNames))
    ELSE IF h.raised
      THEN Returned(Result({"error", "tool_name"},
                           "Tool execution failed", tool_name, {}))
      ELSE h

\* execute_tool(tool_name, tool_input) given what dispatch_tool_call did
ExecuteTool(tool_name, d) ==
  IF tool_name = "getDateTool"
    THEN Returned(Result({"date", "time", "timezone", "timestamp"},
                         "", "", {}))
    ELSE IF d.raised
      THEN Returned(Result({"error", "tool_name", "tool_input"},
                           d.exc, tool_name, {}))
      ELSE d

\* execute_tool reaches "await handler(arguments)" only for these names
Suspends(tool_name) == tool_name \in HandlerNames

InitTools ==
  /\ toolPc = "idle"
  /\ toolCall = [name |-> "", input |-> EmptyObject]
  /\ handlerOut = NoCall
  /\ dispRet = NoCall
  /\ execRet = NoCall

\* execute_tool(name, input) up to its first suspension: getDateTool is
\* answered on the spot, an unknown name comes back from dispatch_tool_call
\* at once, a registered name waits for its handler
ExecuteToolBegin(name, input) ==
  /\ toolPc = "idle"
  /\ toolCall' = [name |-> name, input |-> input]
  /\ IF Suspends(name)
       THEN /\ toolPc' = "handler"
            /\ UNCHANGED <<handlerOut, dispRet, execRet>>
       ELSE /\ toolPc' = "idle"
            /\ dispRet' = IF name = "getDateTool" THEN dispRet
                          ELSE DispatchToolCall(name, NoCall)
            /\ execRet' = ExecuteTool(name, dispRet')
            /\ UNCHANGED handlerOut
  /\ UNCHANGED <<regVars, strVars, outVars>>
  /\ UNCHANGED <<guardVars, auditVars, libVars>>

\* the handler finished with outcome h: dispatch_tool_call and then
\* execute_tool return
ExecuteToolResume(h) ==
  /\ toolPc = "handler"
  /\ toolPc' = "idle"
  /\ handlerOut' = h
  /\ dispRet' = DispatchToolCall(toolCall.name, h)
  /\ execRet' = ExecuteTool(toolCall.name, dispRet')
  /\ UNCHANGED <<toolCall, regVars, strVars, outVars>>
  /\ UNCHANGED <<guardVars, auditVars, libVars>>

NextTools ==
  \/ \E name \in ToolNames, input \in ToolInputs : ExecuteToolBegin(name, input)
  \/ \E h \in HandlerOutcomes : ExecuteToolResume(h)

(***************************************************************************)
(* Guardrails (app/guardrails.py, app/guardrails_loader.py).               *)
(* A text is the set of the words and markers that occur in it; a locale   *)
(* is the sequence of its characters; a pattern is the sequence of its     *)
(* alternatives (the comma-separated keywords of a keyword pattern, the    *)
(* alternation of a regex).                                                *)
(***************************************************************************)
InterruptedMarker == "{ \"interrupted\" : true }"

\* the only token of a text made of whitespace
Whitespace == " "

\* the transcript texts the provider sends
Texts == { {"hello"}, {"cure", "best"}, {"best"}, {InterruptedMarker} }

\* the texts check() is given: the provider's, the empty text, a text of
\* whitespace only, and texts for the rules of RuleRows
CheckTexts ==
  Texts \cup { {}, {Whitespace}, {"price"}, {"off-label", "price"},
               {"harm"}, {"mrn", "best"} }

Rule(id, type, pattern, sev, msg, on) ==
  [rule_id |-> id, pattern_type |-> type, pattern |-> pattern,
   severity |-> sev, action_message |-> msg, enabled |-> on]

\* the loaded rule set: keyword rules of every severity, one of them disabled
Rules ==
  << Rule("WARN_1", "keyword", <<"best">>, "warn", "warn message", TRUE),
     Rule("REWRITE_1", "keyword", <<"best">>, "rewrite", "rewrite message", TRUE),
     Rule("BLOCK_1", "keyword", <<"cure">>, "block", "block message", TRUE),
     Rule("BLOCK_2", "keyword", <<"hello">>, "block", "disabled message", FALSE) >>

\* rows of docs/guardrails.xlsx as create_guardrails_excel.py writes them,
\* each pattern cut down to the alternatives the texts use
RuleRows ==
  << Rule("OFF_LABEL_001", "keyword", <<"off-label">>, "block",
          "off-label message", TRUE),
     Rule("PRICING_001", "keyword", <<"cost", "price">>, "block",
          "pricing message", TRUE),
     Rule("COMPARATIVE_001", "keyword", <<"best">>, "rewrite",
          "comparative message", TRUE),
     Rule("AE_001", "keyword", <<"harm">>, "warn", "adverse event message", TRUE),
     Rule("PHI_001", "regex", <<"ssn", "mrn">>, "block", "phi message", TRUE),
     Rule("LANGUAGE_001", "llm_hint", <<"non-english detected">>, "block",
          "language rule message", TRUE) >>

\* the rule tables a load can produce: Rules, and RuleRows with any of the
\* rows switched off in the enabled column
RuleTables ==
  {Rules} \cup
  { [i \in DOMAIN RuleRows |-> [RuleRows[i] EXCEPT !.enabled = (i \in on)]] :
      on \in SUBSET DOMAIN RuleRows }

EnUS == <<"e", "n", "-", "U", "S">>

\* the locales check() is given; the empty one stands for no locale
NoLocale == <<>>
Locales ==
  { NoLocale, EnUS, <<"e", "n", "_", "u", "s">>, <<"E", "N">>,
    <<"e", "n", "g">>, <<"e", "n", "-", "U", "S", "-", "x">>,
    <<"f", "r", "-", "F", "R">>, <<"d", "e">> }

Policy(locales, msg) ==
  [present |-> TRUE, allowed_locales |-> locales, fallback_message |-> msg]

\* config.language_policy is None
NoPolicy == [present |-> FALSE, allowed_locales |-> <<>>, fallback_message |-> ""]

\* the policy of docs/guardrails.xlsx
EnglishPolicy ==
  Policy(<<EnUS, <<"e", "n", "-", "G", "B">> >>, "fallback message")

\* the language policies a load can produce
Policies ==
  { NoPolicy, EnglishPolicy,
    Policy(<< <<"e", "n">> >>, "fallback message"),
    Policy(<< <<"f", "r", "_", "C", "A">> >>, "message de repli") }

Config(rules, policy) == [rules |-> rules, language_policy |-> policy]

\* the configuration the output path runs with
LoadedConfig == Config(Rules, EnglishPolicy)

\* get_enabled_rules()
GetEnabledRules(config) == SelectSeq(config.rules, LAMBDA r : r.enabled)

\* str.lower() on the characters of a locale
LowerChar(c) ==
  CASE c = "E" -> "e"
    [] c = "N" -> "n"
    [] c = "U" -> "u"
    [] c = "S" -> "s"
    [] c = "G" -> "g"
    [] c = "B" -> "b"
    [] c = "F" -> "f"
    [] c = "R" -> "r"
    [] c = "C" -> "c"
    [] c = "A" -> "a"
    [] OTHER -> c

\* locale.replace('_', '-').lower()
NormLocale(l) ==
  [i \in DOMAIN l |-> IF l[i] = "_" THEN "-" ELSE LowerChar(l[i])]

Least(S) == CHOOSE x \in S : \A y \in S : x <= y

\* l.split('-')[0]
BaseTag(l) ==
  LET dashes == {i \in DOMAIN l : l[i] = "-"} IN
    IF dashes = {} THEN l ELSE SubSeq(l, 1, Least(dashes) - 1)

\* s.startswith(p)
StartsWith(s, p) == Len(p) <= Len(s) /\ SubSeq(s, 1, Len(p)) = p

\* is_allowed of _check_language
IsAllowed(locale, policy) ==
  LET locale_norm == NormLocale(locale) IN
    \E i \in DOMAIN policy.allowed_locales :
      LET allowed == NormLocale(policy.allowed_locales[i]) IN
        \/ locale_norm = allowed
        \/ StartsWith(locale_norm, allowed)
        \/ BaseTag(locale_norm) = BaseTag(allowed)

\* a GuardrailViolation (violated is True in every one the engine builds)
Violation(id, sev, msg) ==
  [rule_id |-> id, severity |-> sev, action_message |-> msg]

\* _check_language: no violation (the empty sequence) or the language one
CheckLanguage(locale, policy) ==
  IF ~policy.present THEN <<>>
  ELSE IF locale = NoLocale THEN <<>>
  ELSE IF IsAllowed(locale, policy) THEN <<>>
  ELSE << Violation("LANGUAGE_001", "block", policy.fallback_message) >>

NoMatch == "None"

\* _match_keyword and _match_regex: the first alternative that occurs in
\* the text
Match(pattern, text) ==
  LET hits == {i \in DOMAIN pattern : pattern[i] \in text} IN
    IF hits = {} THEN NoMatch ELSE pattern[Least(hits)]

\* _check_rule: whether the rule is violated; an llm_hint rule never is
CheckRule(rule, text) ==
  /\ rule.pattern_type \in {"regex", "keyword"}
  /\ Match(rule.pattern, text) # NoMatch

\* "not text_segment or not text_segment.strip()"
Blank(text) == text \subseteq {Whitespace}

\* the loop of check() over the enabled rules: the violations in rule order
RuleViolations(rules, text) ==
  LET hit == SelectSeq(rules, LAMBDA r : CheckRule(r, text)) IN
    [i \in DOMAIN hit |->
       Violation(hit[i].rule_id, hit[i].severity, hit[i].action_message)]

\* GuardrailsEngine.check: result.violations
CheckText(config, text, locale) ==
  IF Blank(text) THEN <<>>
  ELSE LET lang_violation == CheckLanguage(locale, config.language_policy) IN
         IF lang_violation # <<>> /\ lang_violation[1].severity = "block"
           THEN lang_violation
           ELSE lang_violation \o RuleViolations(GetEnabledRules(config), text)

\* guardrails.check as stream_events calls it: locale "en-US"
Check(text) == CheckText(LoadedConfig, text, EnUS)

\* GuardrailCheckResult.should_block with the severities compared loosely
ShouldBlockAny(v) == \E i \in DOMAIN v : v[i].severity \in {"block", "rewrite"}

\* GuardrailCheckResult.should_block
ShouldBlock(v) == \E i \in DOMAIN v : v[i].severity = "block"

\* GuardrailCheckResult.should_rewrite
ShouldRewrite(v) ==
  IF ShouldBlock(v) THEN FALSE
  ELSE \E i \in DOMAIN v : v[i].severity = "rewrite"

\* severity_order of highest_severity_violation
SeverityOrder(sev) ==
  CASE sev = "block" -> 0
    [] sev = "rewrite" -> 1
    [] sev = "warn" -> 2
    [] OTHER -> 999

\* highest_severity_violation returning the last violation of the smallest
\* severity order
HighestSeverityViolationLast(v) ==
  v[CHOOSE i \in DOMAIN v :
      /\ \A j \in DOMAIN v : SeverityOrder(v[i].severity) <= SeverityOrder(v[j].severity)
      /\ \A j \in (i + 1)..Len(v) : SeverityOrder(v[j].severity) > SeverityOrder(v[i].severity)]

\* highest_severity_violation: min() returns the first violation of the
\* smallest severity order
HighestSeverityViolation(v) ==
  v[CHOOSE i \in DOMAIN v :
      /\ \A j \in DOMAIN v : SeverityOrder(v[i].severity) <= SeverityOrder(v[j].severity)
      /\ \A j \in 1..(i - 1) : SeverityOrder(v[j].severity) > SeverityOrder(v[i].severity)]

NoMessage == "None"

\* GuardrailCheckResult.action_message
ActionMessage(v) ==
  IF v = <<>> THEN NoMessage ELSE HighestSeverityViolation(v).action_message

(***************************************************************************)
(* Audit log (app/guardrails_audit.py)                                     *)
(***************************************************************************)
\* action_taken of log_check with the rewrite test before the block test
ActionTakenRewriteFirst(v) ==
  IF v = <<>> THEN "passed"
  ELSE IF \E i \in DOMAIN v : v[i].severity = "rewrite" THEN "rewritten"
  ELSE IF ShouldBlock(v) THEN "blocked"
  ELSE "warned"

\* action_taken of log_check
ActionTaken(v) ==
  IF v = <<>> THEN "passed"
  ELSE IF ShouldBlock(v) THEN "blocked"
  ELSE IF ShouldRewrite(v) THEN "rewritten"
  ELSE "warned"

\* the GuardrailAuditEntry log_check builds for a result with violations v
AuditEntry(v) ==
  [action_taken |-> ActionTaken(v),
   violated |-> (Len(v) > 0),
   severities |-> {v[i].severity : i \in DOMAIN v}]

\* no entry written yet
NoEntry == [action_taken |-> "none", violated |-> FALSE, severities |-> {}]

\* how a log_guardrail_check call can go: the entry is written; building
\* or writing it fails inside log_check; or get_audit_logger() cannot
\* create the log directory, which GuardrailsAuditLogger.__init__ does
\* outside any try
AuditOutcomes == {"written", "write_failed", "no_logger"}

\* log_guardrail_check(result): get_audit_logger(), then log_check, whose
\* "except Exception" swallows every failure of its own
LogGuardrailCheck(v, outcome) ==
  /\ outcome = "no_logger" => audit_logger = "none"
  /\ audit_logger' = IF outcome = "no_logger" THEN "none" ELSE "ready"
  /\ audit_entry' = IF outcome = "written" THEN AuditEntry(v) ELSE audit_entry

\* whether log_guardrail_check raises to its caller
LogRaises(outcome) == outcome = "no_logger"

\* the check() call under way: none
NoCheck ==
  [config |-> LoadedConfig, text |-> {}, locale |-> NoLocale, violations |-> <<>>]

InitGuard ==
  /\ gConfig = LoadedConfig
  /\ gPc = "idle"
  /\ gResult = NoCheck
  /\ audit_logger = "none"
  /\ audit_entry = NoEntry

(***************************************************************************)
(* NovaSonicClient (services/nova_sonic_client.py): the events one client  *)
(* hands to the provider stream.  The client followed is the one of        *)
(* session StreamSid; the request handlers acting on it have found it with *)
(* get_session.                                                            *)
(***************************************************************************)
NoTool == [id |-> 0, name |-> "", input |-> EmptyObject]

InitStream ==
  /\ stream = "none"
  /\ sent = <<>>
  /\ respPc = "none"
  /\ respCancel = FALSE
  /\ curTool = NoTool
  /\ nRecv = 0
  /\ audioTasks = <<>>
  /\ audioStopped = FALSE
  /\ nClient = 0
  /\ closePc = [k \in Closers |-> "idle"]

Active == is_active[StreamSid]

SetActive(b) == is_active' = [is_active EXCEPT ![StreamSid] = b]

\* ---- output_subject ----------------------------------------------------
\* the consumers that may read the session's events: two SSE requests
\* (GET /events/stream/{id}) and one WebSocket (/ws/{id})
Consumers == {"sse1", "sse2", "ws1"}

Kind(c) == IF c = "ws1" THEN "ws" ELSE "sse"

NoRole == "None"
NoText == {}

\* an event on output_subject: its type, the role a contentStart carries,
\* the text a textOutput carries, and the role of the contentStart that
\* preceded it in the provider stream
OutEvent(type, r, text, turn) ==
  [type |-> type, role |-> r, text |-> text, turn |-> turn, arrival |-> 0]

\* on_completed, which get_events_stream queues as None
EndMarker == OutEvent("end", NoRole, NoText, NoRole)

\* on_error, which get_events_stream queues as {"error": ...}
ErrorMarker == OutEvent("error", NoRole, NoText, NoRole)

ToolLog(type) == OutEvent(type, NoRole, NoText, NoRole)

\* the events the provider sends on the output side
ProviderEvents ==
  {OutEvent("contentStart", r, NoText, NoRole) : r \in {"ASSISTANT", "USER"}}
  \cup {OutEvent("textOutput", NoRole, t, NoRole) : t \in Texts}
  \cup {OutEvent("audioOutput", NoRole, NoText, NoRole)}

\* str.lower() on the role strings
Lower(r) ==
  CASE r = "ASSISTANT" -> "assistant"
    [] r = "USER" -> "user"
    [] OTHER -> r

\* what a client is sent: the kind of message, the speaker and text of a
\* transcript, and the event it was made from
OutMessage(kind, speaker, text, e) ==
  [kind |-> kind, speaker |-> speaker, text |-> text, src |-> e]

InitOutput ==
  /\ role = NoRole
  /\ barge_in = FALSE
  /\ outStopped = FALSE
  /\ cons = [c \in Consumers |-> "none"]
  /\ queue = [c \in Consumers |-> <<>>]
  /\ delivered = [c \in Consumers |-> <<>>]
  /\ suppress_next_audio = FALSE
  /\ nProv = 0

\* on_next putting the events in front of the queue
OnNextInFront(events) ==
  [c \in Consumers |->
     IF cons[c] = "attached" /\ ~outStopped THEN events \o queue[c]
     ELSE queue[c]]

\* output_subject.on_next(e) for each e of events: every subscribed
\* get_events_stream queues it; a stopped subject drops it
OnNext(events) ==
  [c \in Consumers |->
     IF cons[c] = "attached" /\ ~outStopped THEN queue[c] \o events
     ELSE queue[c]]

\* the end of _process_responses: "finally: if self.is_active:
\* self.output_subject.on_completed()"
OnCompleted ==
  IF Active
    THEN /\ queue' = OnNext(<<EndMarker>>)
         /\ outStopped' = TRUE
    ELSE UNCHANGED <<queue, outStopped>>

\* send_raw_event: nothing is sent unless the stream is there and the
\* client is active
SendRawEvent(act, events, e) ==
  IF stream = "open" /\ act THEN Append(events, e) ELSE events

\* initialize_stream on the followed client
InitializeStream(ok) ==
  /\ stream = "none"
  /\ SetActive(ok)
  /\ StreamOpened(ok)
  /\ UNCHANGED <<strRestVars, regOnlyVars, outVars, toolVars>>
  /\ UNCHANGED <<guardVars, auditVars, libVars>>

\* execute_tool came back with outcome r, "before" being the events this
\* step published before the call and "logs" those published up to
\* send_tool_result.  An exception would leave _handle_response_event and end
\* the loop in the "except Exception" of _process_responses.  Otherwise
\* send_tool_result runs up to the await of its first send; it sends nothing
\* when the client is not active, and the loop then ends.
SendToolResultBegin(t, r, before, logs) ==
  IF r.raised
    THEN /\ respPc' = "failed"
         /\ curTool' = NoTool
         /\ queue' = OnNext(before \o <<ErrorMarker>>)
         /\ outStopped' = TRUE
         /\ UNCHANGED sent
    ELSE IF ~Active
      THEN /\ respPc' = "done"
           /\ curTool' = NoTool
           /\ queue' = OnNext(logs \o <<ToolLog("toolUse")>>)
           /\ UNCHANGED <<sent, outStopped>>
      ELSE /\ sent' = SendRawEvent(Active, sent,
                        Ev("contentStart", ToolContent(t.id), t.id))
           /\ respPc' = "tr1"
           /\ curTool' = t
           /\ queue' = OnNext(logs)
           /\ UNCHANGED outStopped

\* _process_responses received a toolUse event: _handle_response_event
\* decodes it, publishes the invocation log and calls execute_tool, which
\* either suspends in the handler or returns at once, in which case the
\* result log is published and send_tool_result starts
RecvToolUse(name, text) ==
  /\ respPc = "recv"
  /\ ~respCancel
  /\ nRecv < MaxToolUses
  /\ nRecv' = nRecv + 1
  /\ LET t == [id |-> nRecv + 1, name |-> name,
               input |-> ParseToolInput(text)]
     IN IF Suspends(name)
          THEN /\ respPc' = "exec"
               /\ curTool' = t
               /\ queue' = OnNext(<<ToolLog("toolLog")>>)
               /\ UNCHANGED <<sent, outStopped>>
          ELSE SendToolResultBegin(t,
                 ExecuteTool(name, DispatchToolCall(name, NoCall)),
                 <<ToolLog("toolLog")>>,
                 <<ToolLog("toolLog"), ToolLog("toolLog")>>)
  /\ UNCHANGED <<stream, respCancel, audioTasks, audioStopped, nClient,
                 closePc, regVars, outOnlyVars, toolVars>>
  /\ UNCHANGED <<guardVars, auditVars, libVars>>

\* the tool handler finished with outcome h; execute_tool returns, the
\* result log is published and send_tool_result starts
ToolExecuted(h) ==
  /\ respPc = "exec"
  /\ ~respCancel
  /\ SendToolResultBegin(curTool,
       ExecuteTool(curTool.name, DispatchToolCall(curTool.name, h)),
       <<>>, <<ToolLog("toolLog")>>)
  /\ UNCHANGED <<stream, respCancel, nRecv, audioTasks, audioStopped, nClient,
                 closePc, regVars, outOnlyVars, toolVars>>
  /\ UNCHANGED <<guardVars, auditVars, libVars>>

\* send_tool_result resumes after one of its three awaited sends; after the
\* third the toolUse event itself is published and the loop goes on
ToolResultStep ==
  /\ respPc \in {"tr1", "tr2", "tr3"}
  /\ ~respCancel
  /\ CASE respPc = "tr1" ->
            /\ sent' = SendRawEvent(Active, sent,
                         Ev("toolResult", ToolContent(curTool.id), 0))
            /\ respPc' = "tr2"
            /\ UNCHANGED <<curTool, queue>>
       [] respPc = "tr2" ->
            /\ sent' = SendRawEvent(Active, sent,
                         Ev("contentEnd", ToolContent(curTool.id), 0))
            /\ respPc' = "tr3"
            /\ UNCHANGED <<curTool, queue>>
       [] respPc = "tr3" ->
            /\ respPc' = IF Active THEN "recv" ELSE "done"
            /\ curTool' = NoTool
            /\ queue' = OnNext(<<ToolLog("toolUse")>>)
            /\ UNCHANGED sent
  /\ UNCHANGED <<stream, respCancel, nRecv, audioTasks, audioStopped, nClient,
                 closePc, regVars, outOnlyVars, outStopped, toolVars>>
  /\ UNCHANGED <<guardVars, auditVars, libVars>>

\* the provider stream ended (StopAsyncIteration): the loop breaks and its
\* finally clause completes output_subject
RecvEnd ==
  /\ respPc = "recv"
  /\ ~respCancel
  /\ respPc' = "done"
  /\ OnCompleted
  /\ UNCHANGED <<stream, sent, respCancel, curTool, nRecv, audioTasks,
                 audioStopped, nClient, closePc, regVars, outOnlyVars, toolVars>>
  /\ UNCHANGED <<guardVars, auditVars, libVars>>

\* await_output() or receive() raised (the provider stream broke): the
\* "except Exception" of the loop hands the exception to output_subject and
\* breaks.  The subject is stopped by on_error, so the on_completed() of the
\* finally clause reaches nobody; is_active is not written.
RecvError ==
  /\ respPc = "recv"
  /\ ~respCancel
  /\ respPc' = "failed"
  /\ queue' = OnNext(<<ErrorMarker>>)
  /\ outStopped' = TRUE
  /\ UNCHANGED <<stream, sent, respCancel, curTool, nRecv, audioTasks,
                 audioStopped, nClient, closePc, regVars, outOnlyVars, toolVars>>
  /\ UNCHANGED <<guardVars, auditVars, libVars>>

\* the CancelledError of response_task.cancel() is raised at the await the
\* task is suspended in; no "except Exception" on the way catches it, and
\* the finally clause of _process_responses completes output_subject
RespCancelled ==
  /\ respCancel
  /\ respPc \in {"recv", "exec", "tr1", "tr2", "tr3"}
  /\ respPc' = "cancelled"
  /\ respCancel' = FALSE
  /\ OnCompleted
  /\ UNCHANGED <<stream, sent, curTool, nRecv, audioTasks, audioStopped,
                 nClient, closePc, regVars, outOnlyVars, toolVars>>
  /\ UNCHANGED <<guardVars, auditVars, libVars>>

\* POST /audio/chunk (or a WebSocket audio_data message): add_audio_chunk
\* publishes on audio_subject, whose subscriber creates a task per chunk;
\* a completed subject drops the chunk
AddAudioChunk(limit) ==
  /\ Active
  /\ nClient < limit
  /\ nClient' = nClient + 1
  /\ audioTasks' = IF audioStopped THEN audioTasks
                   ELSE Append(audioTasks, nClient + 1)
  /\ UNCHANGED <<stream, sent, respPc, respCancel, curTool, nRecv,
                 audioStopped, closePc, regVars, outVars, toolVars>>
  /\ UNCHANGED <<guardVars, auditVars, libVars>>

\* the event loop running any of the _handle_audio_input tasks
HandleAudioInputAnyTask ==
  /\ audioTasks # <<>>
  /\ \E k \in DOMAIN audioTasks :
       /\ sent' = SendRawEvent(Active, sent,
                    Ev("audioInput", AudioContent, audioTasks[k]))
       /\ audioTasks' = SubSeq(audioTasks, 1, k - 1)
                        \o SubSeq(audioTasks, k + 1, Len(audioTasks))
  /\ UNCHANGED <<stream, respPc, respCancel, curTool, nRecv, audioStopped,
                 nClient, closePc, regVars, outVars, toolVars>>
  /\ UNCHANGED <<guardVars, auditVars, libVars>>

\* the event loop runs the oldest _handle_audio_input task up to its send
HandleAudioInput ==
  /\ audioTasks # <<>>
  /\ sent' = SendRawEvent(Active, sent,
               Ev("audioInput", AudioContent, Head(audioTasks)))
  /\ audioTasks' = Tail(audioTasks)
  /\ UNCHANGED <<stream, respPc, respCancel, curTool, nRecv, audioStopped,
                 nClient, closePc, regVars, outVars, toolVars>>
  /\ UNCHANGED <<guardVars, auditVars, libVars>>

\* send_audio_content_start_event, called when an SSE or WebSocket consumer
\* connects
SendAudioContentStart ==
  /\ Active
  /\ nClient < MaxClientEvents
  /\ nClient' = nClient + 1
  /\ sent' = SendRawEvent(Active, sent, Ev("contentStart", AudioContent, 0))
  /\ UNCHANGED <<stream, respPc, respCancel, curTool, nRecv, audioTasks,
                 audioStopped, closePc, regVars, outVars, toolVars>>
  /\ UNCHANGED <<guardVars, auditVars, libVars>>

\* POST /audio/end (or a WebSocket end_audio message):
\* send_audio_content_end_event
SendAudioContentEnd ==
  /\ Active
  /\ nClient < MaxClientEvents
  /\ nClient' = nClient + 1
  /\ sent' = SendRawEvent(Active, sent, Ev("contentEnd", AudioContent, 0))
  /\ UNCHANGED <<stream, respPc, respCancel, curTool, nRecv, audioTasks,
                 audioStopped, closePc, regVars, outVars, toolVars>>
  /\ UNCHANGED <<guardVars, auditVars, libVars>>

\* the closing events, in the order close() sends them
ClosingEvent(stage) ==
  CASE stage = "ce" -> Ev("contentEnd", AudioContent, 0)
    [] stage = "pe" -> Ev("promptEnd", NoContent, 0)
    [] stage = "se" -> Ev("sessionEnd", NoContent, 0)

\* close() from the closing event "stage" on, run to its next suspension:
\* send_audio_content_end_event, send_prompt_end_event and
\* send_session_end_event each return at once when the client is not
\* active, and then close() waits in input_stream.close()
CloseSend(k, stage) ==
  IF Active
    THEN /\ sent' = SendRawEvent(Active, sent, ClosingEvent(stage))
         /\ closePc' = [closePc EXCEPT ![k] = stage]
    ELSE /\ closePc' = [closePc EXCEPT ![k] = "release"]
         /\ UNCHANGED sent

\* close() up to its first suspension: a no-op on a client that is not
\* active; otherwise the subjects are completed and the response task, if
\* it is not done, is cancelled and awaited
CloseBegin(k) ==
  /\ closePc[k] = "idle"
  /\ IF ~Active
       THEN UNCHANGED <<audioStopped, respCancel, closePc, sent>>
       ELSE /\ audioStopped' = TRUE
            /\ IF respPc \in {"none", "done", "failed", "cancelled"}
                 THEN /\ CloseSend(k, "ce")
                      /\ UNCHANGED respCancel
                 ELSE /\ respCancel' = TRUE
                      /\ closePc' = [closePc EXCEPT ![k] = "task"]
                      /\ UNCHANGED sent
  /\ UNCHANGED <<stream, respPc, curTool, nRecv, audioTasks, nClient,
                 regVars, outVars, toolVars>>
  /\ UNCHANGED <<guardVars, auditVars, libVars>>

\* close() resumes: the awaited response task is done, or the awaited send
\* of a closing event returned, or input_stream.close() returned.  The
\* _handle_audio_input tasks created before close() suspended are ahead of
\* its resumption in the event loop, and have run up to their send by then.
CloseResume(k) ==
  /\ closePc[k] \in {"task", "ce", "pe", "se", "release"}
  /\ audioTasks = <<>>
  /\ CASE closePc[k] = "task" ->
            /\ respPc \in {"done", "failed", "cancelled"}
            /\ CloseSend(k, "ce")
            /\ UNCHANGED <<stream, is_active>>
       [] closePc[k] = "ce" ->
            /\ CloseSend(k, "pe")
            /\ UNCHANGED <<stream, is_active>>
       [] closePc[k] = "pe" ->
            /\ CloseSend(k, "se")
            /\ UNCHANGED <<stream, is_active>>
       [] closePc[k] = "se" ->
            /\ SetActive(FALSE)
            /\ closePc' = [closePc EXCEPT ![k] = "release"]
            /\ UNCHANGED <<stream, sent>>
       [] closePc[k] = "release" ->
            /\ stream' = "closed"
            /\ closePc' = [closePc EXCEPT ![k] = "idle"]
            /\ UNCHANGED <<sent, is_active>>
  /\ UNCHANGED <<respPc, respCancel, curTool, nRecv, audioTasks,
                 audioStopped, nClient, regOnlyVars, outVars, toolVars>>
  /\ UNCHANGED <<guardVars, auditVars, libVars>>

NextStream ==
  \/ \E ok \in BOOLEAN : InitializeStream(ok)
  \/ \E name \in StreamToolNames, text \in ToolContents : RecvToolUse(name, text)
  \/ \E h \in HandlerOutcomes : ToolExecuted(h)
  \/ ToolResultStep
  \/ RecvEnd
  \/ RespCancelled
  \/ AddAudioChunk(MaxClientEvents)
  \/ HandleAudioInput
  \/ SendAudioContentStart
  \/ SendAudioContentEnd
  \/ \E k \in Closers : CloseBegin(k)
  \/ \E k \in Closers : CloseResume(k)

\* the sessions of the registry while the provider stream of one breaks
NextFailure ==
  \/ NextRegistry
  \/ RecvError

\* the chunks a client submits
MaxAudioChunks == 3

\* one close() of the followed session, among the requests of its client
\* and the ends the response loop can take
NextClose ==
  \/ \E ok \in BOOLEAN : InitializeStream(ok)
  \/ AddAudioChunk(MaxAudioChunks)
  \/ HandleAudioInput
  \/ SendAudioContentStart
  \/ SendAudioContentEnd
  \/ RecvEnd
  \/ RecvError
  \/ RespCancelled
  \/ CloseBegin("k1")
  \/ CloseResume("k1")

\* the client side of the followed session: audio in, and the close
NextAudio ==
  \/ \E ok \in BOOLEAN : InitializeStream(ok)
  \/ AddAudioChunk(MaxAudioChunks)
  \/ HandleAudioInput
  \/ SendAudioContentStart
  \/ SendAudioContentEnd
  \/ RecvEnd
  \/ RespCancelled
  \/ \E k \in Closers : CloseBegin(k)
  \/ \E k \in Closers : CloseResume(k)

(***************************************************************************)
(* Output path: output_subject of the followed client, the queues of       *)
(* get_events_stream and the SSE / WebSocket senders of app/main.py.       *)
(***************************************************************************)
\* _process_responses received a contentStart, textOutput or audioOutput:
\* _handle_response_event records the role or the barge-in, then the event
\* is published
RecvOutputEvent(e) ==
  /\ respPc = "recv"
  /\ ~respCancel
  /\ nProv < MaxProviderEvents
  /\ nProv' = nProv + 1
  /\ role' = IF e.type = "contentStart" THEN e.role ELSE role
  /\ barge_in' = (barge_in \/ (e.type = "textOutput" /\ InterruptedMarker \in e.text))
  /\ queue' = OnNext(<<[e EXCEPT !.turn = role', !.arrival = nProv + 1]>>)
  /\ UNCHANGED <<outStopped, cons, delivered, suppress_next_audio,
                 regVars, strVars, toolVars>>
  /\ UNCHANGED <<guardVars, auditVars, libVars>>

\* a consumer connects: send_audio_content_start_event, then
\* get_events_stream subscribes to output_subject.  Neither stream_events
\* nor websocket_endpoint looks for a consumer that is already attached.
\* A subject that has completed completes the new subscriber at once, and
\* one that was stopped by on_error hands it the error.
Attach(c) ==
  /\ cons[c] = "none"
  /\ stream # "none"
  /\ sent' = SendRawEvent(Active, sent, Ev("contentStart", AudioContent, 0))
  /\ cons' = [cons EXCEPT ![c] = "attached"]
  /\ queue' = [queue EXCEPT ![c] =
                 IF ~outStopped THEN <<>>
                 ELSE IF respPc = "failed" THEN <<ErrorMarker>>
                 ELSE <<EndMarker>>]
  /\ UNCHANGED <<role, barge_in, outStopped, delivered, suppress_next_audio,
                 nProv, regVars, stream, respPc, respCancel, curTool, nRecv,
                 audioTasks, audioStopped, nClient, closePc, toolVars>>
  /\ UNCHANGED <<guardVars, auditVars, libVars>>

\* whether event_generator runs the guardrails on this event
SseChecks(e) ==
  /\ e.type = "textOutput"
  /\ InterruptedMarker \notin e.text
  /\ Lower(IF role = NoRole THEN "assistant" ELSE role) = "assistant"

\* event_generator passing on the audio whatever the flag says
SseMessagesAudioUnsuppressed(e) ==
  CASE e.type = "textOutput" ->
         IF InterruptedMarker \in e.text THEN <<>>
         ELSE LET r == IF role = NoRole THEN "assistant" ELSE role
                  v == Check(e.text)
                  replace == Lower(r) = "assistant"
                             /\ (ShouldBlock(v) \/ ShouldRewrite(v))
              IN << OutMessage("transcript", Lower(r),
                               IF replace THEN {ActionMessage(v)} ELSE e.text, e) >>
    [] e.type = "audioOutput" -> << OutMessage("audio", NoRole, NoText, e) >>
    [] e.type = "contentStart" ->
         << OutMessage("content_start", e.role, NoText, e) >>
    [] OTHER -> <<>>

\* event_generator of stream_events, for one queued event
SseMessages(e) ==
  CASE e.type = "textOutput" ->
         IF InterruptedMarker \in e.text THEN <<>>
         ELSE LET r == IF role = NoRole THEN "assistant" ELSE role
                  v == Check(e.text)
                  replace == Lower(r) = "assistant"
                             /\ (ShouldBlock(v) \/ ShouldRewrite(v))
              IN << OutMessage("transcript", Lower(r),
                               IF replace THEN {ActionMessage(v)} ELSE e.text, e) >>
    [] e.type = "audioOutput" ->
         IF suppress_next_audio THEN <<>>
         ELSE << OutMessage("audio", NoRole, NoText, e) >>
    [] e.type = "contentStart" ->
         << OutMessage("content_start", e.role, NoText, e) >>
    [] OTHER -> <<>>

\* whether event_generator sets client.suppress_next_audio on this event
SseSuppresses(e) ==
  /\ SseChecks(e)
  /\ ShouldBlock(Check(e.text)) \/ ShouldRewrite(Check(e.text))

\* send_responses passing on every text
WsMessagesUnfiltered(e) ==
  CASE e.type = "textOutput" ->
         << OutMessage("transcript",
                       Lower(IF role = NoRole THEN "assistant" ELSE role),
                       e.text, e) >>
    [] e.type = "audioOutput" -> << OutMessage("audio", NoRole, NoText, e) >>
    [] OTHER -> <<>>

\* send_responses of websocket_endpoint, for one queued event
WsMessages(e) ==
  CASE e.type = "textOutput" ->
         IF InterruptedMarker \in e.text THEN <<>>
         ELSE << OutMessage("transcript",
                            Lower(IF role = NoRole THEN "assistant" ELSE role),
                            e.text, e) >>
    [] e.type = "audioOutput" -> << OutMessage("audio", NoRole, NoText, e) >>
    [] OTHER -> <<>>

\* a consumer takes the next event from its queue and sends the client
\* what its handler makes of it; None ends the consumer, and so does an
\* error event on the SSE stream.  On an assistant text the SSE generator
\* calls log_guardrail_check between check() and the transcript; what that
\* call raises lands in the generator's "except Exception", which sends an
\* error message and ends the stream.
Deliver(c, outcome) ==
  /\ cons[c] = "attached"
  /\ queue[c] # <<>>
  /\ LET e == Head(queue[c])
         audited == Kind(c) = "sse" /\ SseChecks(e) IN
       /\ queue' = [queue EXCEPT ![c] = Tail(queue[c])]
       /\ IF audited
            THEN LogGuardrailCheck(Check(e.text), outcome)
            ELSE outcome = "written" /\ UNCHANGED auditVars
       /\ IF e.type = "end"
            THEN /\ cons' = [cons EXCEPT ![c] = "ended"]
                 /\ UNCHANGED <<delivered, suppress_next_audio>>
            ELSE IF (e.type = "error" /\ Kind(c) = "sse")
                    \/ (audited /\ LogRaises(outcome))
            THEN /\ cons' = [cons EXCEPT ![c] = "ended"]
                 /\ delivered' = [delivered EXCEPT ![c] =
                       Append(delivered[c], OutMessage("error", NoRole, NoText, e))]
                 /\ UNCHANGED suppress_next_audio
            ELSE /\ delivered' = [delivered EXCEPT ![c] =
                       delivered[c] \o (IF Kind(c) = "sse" THEN SseMessages(e)
                                        ELSE WsMessages(e))]
                 /\ suppress_next_audio' =
                      (suppress_next_audio \/ (Kind(c) = "sse" /\ SseSuppresses(e)))
                 /\ UNCHANGED cons
  /\ UNCHANGED <<role, barge_in, outStopped, nProv, regVars, strVars, toolVars>>
  /\ UNCHANGED <<guardVars, libVars>>

NextOutput ==
  \/ \E ok \in BOOLEAN : InitializeStream(ok)
  \/ \E e \in ProviderEvents : RecvOutputEvent(e)
  \/ RecvEnd
  \/ \E c \in Consumers : Attach(c)
  \/ \E c \in Consumers, outcome \in AuditOutcomes : Deliver(c, outcome)

\* the output path while every audit record is written
NextSubscribers ==
  \/ \E ok \in BOOLEAN : InitializeStream(ok)
  \/ \E e \in ProviderEvents : RecvOutputEvent(e)
  \/ RecvEnd
  \/ \E c \in Consumers : Attach(c)
  \/ \E c \in Consumers : Deliver(c, "written")

\* one consumer of each kind
OneOfEach == {"sse1", "ws1"}

\* the consumers of a session whose response loop ends: by the end of the
\* provider stream, by a provider error, or by close()
NextConsumers ==
  \/ \E ok \in BOOLEAN : InitializeStream(ok)
  \/ \E e \in ProviderEvents : RecvOutputEvent(e)
  \/ RecvEnd
  \/ RecvError
  \/ RespCancelled
  \/ CloseBegin("k1")
  \/ CloseResume("k1")
  \/ \E c \in OneOfEach : Attach(c)
  \/ \E c \in OneOfEach : Deliver(c, "written")

\* the event loop runs every task that is ready: a consumer whose queue
\* holds an event, the cancelled response task, the close() whose await is
\* over
FairConsumers ==
  /\ \A c \in OneOfEach : WF_vars(Deliver(c, "written"))
  /\ WF_vars(RespCancelled)
  /\ WF_vars(CloseResume("k1"))

(***************************************************************************)
(* Guardrails engine as a component of its own: the configuration is       *)
(* reloaded, check() is called on a text and a locale, and its result is   *)
(* handed to log_guardrail_check.  check() and the logging that follows it *)
(* run without an await in between, so no reload falls between them.       *)
(***************************************************************************)
\* reload_rules(), or load_guardrails() finding the file modified
GuardReload(rules, policy) ==
  /\ gPc = "idle"
  /\ gConfig' = Config(rules, policy)
  /\ UNCHANGED <<gPc, gResult, auditVars, regVars, strVars, outVars, toolVars, libVars>>

\* guardrails.check(text, locale)
GuardCheck(text, locale) ==
  /\ gPc = "idle"
  /\ gResult' = [config |-> gConfig, text |-> text, locale |-> locale,
                 violations |-> CheckText(gConfig, text, locale)]
  /\ gPc' = "checked"
  /\ UNCHANGED <<gConfig, auditVars, regVars, strVars, outVars, toolVars, libVars>>

\* log_guardrail_check on the result of the check
GuardLog(outcome) ==
  /\ gPc = "checked"
  /\ LogGuardrailCheck(gResult.violations, outcome)
  /\ gPc' = CASE outcome = "written" -> "logged"
              [] outcome = "write_failed" -> "unlogged"
              [] OTHER -> "raised"
  /\ UNCHANGED <<gConfig, gResult, regVars, strVars, outVars, toolVars, libVars>>

\* the caller is done with the result
GuardReturn ==
  /\ gPc \in {"logged", "unlogged", "raised"}
  /\ gPc' = "idle"
  /\ gResult' = NoCheck
  /\ UNCHANGED <<gConfig, auditVars, regVars, strVars, outVars, toolVars, libVars>>

NextGuard ==
  \/ \E rules \in RuleTables, policy \in Policies : GuardReload(rules, policy)
  \/ \E text \in CheckTexts, locale \in Locales : GuardCheck(text, locale)
  \/ \E outcome \in AuditOutcomes : GuardLog(outcome)
  \/ GuardReturn

(***************************************************************************)
(* Functions checked on their own (SpecLib): each action makes one call    *)
(* and records the function, its argument and its result in libCall.       *)
(***************************************************************************)
NoLibCall == [fn |-> "none", arg |-> <<>>, ret |-> <<>>]

\* ---- the audit log directory (app/guardrails_audit.py) ------------------
\* the days the clock runs through
MaxDays == 2

Days == 1..MaxDays

\* the number of log_check calls made
MaxLogChecks == 3

SessionNames == {"s1", "s2"}

\* the times docs/guardrails.xlsx is written
MaxWrites == 3

\* _config_cache = None
NoCache ==
  [present |-> FALSE, generation |-> 0, raised |-> FALSE, rules |-> <<>>,
   file_modified |-> 0]

\* REQUIRED_SLOTS, in its order
RequiredSlots == <<"hcp_name", "date", "time", "product">>

\* None
NoValue == "None"

\* no check() call is under way
NoCheckCall == [pc |-> "idle", policy |-> 0, rules |-> 0]

\* self.output_json = None
NoOutput == [present |-> FALSE]

\* self.slots of ConversationSession.__init__: the required slots and two
\* of the others
InitialSlots ==
  [hcp_name |-> NoValue, hcp_id |-> NoValue, date |-> NoValue, time |-> NoValue,
   product |-> NoValue, call_notes |-> ""]

InitLib ==
  /\ libCall = NoLibCall
  /\ log_files = [d \in Days |-> <<>>]
  /\ utc_day = 1
  /\ xlsx_file = [workbook |-> "shipped", generation |-> 1, mtime |-> 1]
  /\ config_cache = NoCache
  /\ slots = InitialSlots
  /\ confirmed_slots = {}
  /\ summary_read_back = FALSE
  /\ output_json = NoOutput
  /\ check_call = NoCheckCall

\* the caller takes the result; the next call can be made
LibReturn ==
  /\ libCall # NoLibCall
  /\ libCall' = NoLibCall
  /\ UNCHANGED libRestVars
  /\ UNCHANGED <<regVars, strVars, outVars, toolVars, guardVars, auditVars>>

\* ---- _create_snippet (app/guardrails_audit.py) --------------------------
\* A string is the sequence of its characters.
Digits == {"0", "1", "2", "3", "4", "5", "6", "7", "8", "9"}

Letters ==
  {"a", "b", "c", "d", "e", "f", "g", "h", "i", "j", "k", "l", "m", "n",
   "o", "p", "q", "r", "s", "t", "u", "v", "w", "x", "y", "z",
   "A", "B", "C", "D", "E", "F", "G", "H", "I", "J", "K", "L", "M", "N",
   "O", "P", "Q", "R", "S", "T", "U", "V", "W", "X", "Y", "Z"}

\* \w
WordChars == Letters \cup Digits \cup {"_"}

\* [A-Za-z0-9._%+-], [A-Za-z0-9.-] and [A-Z|a-z] of the e-mail pattern
LocalChars == Letters \cup Digits \cup {".", "_", "%", "+", "-"}
DomainChars == Letters \cup Digits \cup {".", "-"}
TldChars == Letters \cup {"|"}

\* [-.\s] of the phone pattern
PhoneSeparators == {"-", ".", " "}

\* s[i], or a character of no class past either end of s
CharAt(s, i) == IF i \in DOMAIN s THEN s[i] ELSE "$"

AllIn(s, from, to, class) == \A k \in from..to : CharAt(s, k) \in class

\* \b between s[i - 1] and s[i]
WordBoundary(s, i) ==
  (CharAt(s, i - 1) \in WordChars) # (CharAt(s, i) \in WordChars)

Greatest(S) == CHOOSE x \in S : \A y \in S : x >= y

\* the length of the match of \d{3}-\d{2}-\d{4} at s[i], 0 for none
SsnMatch(s, i) ==
  IF /\ AllIn(s, i, i + 2, Digits) /\ CharAt(s, i + 3) = "-"
     /\ AllIn(s, i + 4, i + 5, Digits) /\ CharAt(s, i + 6) = "-"
     /\ AllIn(s, i + 7, i + 10, Digits)
    THEN 11 ELSE 0

\* the length of the match of \(?\d{3}\)?[-.\s]?\d{3}[-.\s]?\d{4} at s[i]:
\* an optional character is taken whenever it is there, since a digit has
\* to follow it
PhoneMatch(s, i) ==
  LET p1 == IF CharAt(s, i) = "(" THEN i + 1 ELSE i
      p2 == p1 + 3
      p3 == IF CharAt(s, p2) = ")" THEN p2 + 1 ELSE p2
      p4 == IF CharAt(s, p3) \in PhoneSeparators THEN p3 + 1 ELSE p3
      p5 == p4 + 3
      p6 == IF CharAt(s, p5) \in PhoneSeparators THEN p5 + 1 ELSE p5
  IN IF /\ AllIn(s, p1, p1 + 2, Digits)
        /\ AllIn(s, p4, p4 + 2, Digits)
        /\ AllIn(s, p6, p6 + 3, Digits)
       THEN p6 + 4 - i ELSE 0

\* the length of the match of
\* \b[A-Za-z0-9._%+-]+@[A-Za-z0-9.-]+\.[A-Z|a-z]{2,}\b at s[i]: the local
\* part runs up to the "@"; of the ways to split what follows into domain,
\* dot and top-level part the regex takes the longest domain, then the
\* longest top-level part
EmailMatch(s, i) ==
  LET ats == {j \in (i + 1)..Len(s) : s[j] = "@" /\ AllIn(s, i, j - 1, LocalChars)}
  IN IF ~WordBoundary(s, i) \/ ats = {} THEN 0
     ELSE LET at == Least(ats)
              ends == {de \in ((at + 1)..Len(s)) \X ((at + 1)..Len(s)) :
                         /\ AllIn(s, at + 1, de[1], DomainChars)
                         /\ CharAt(s, de[1] + 1) = "."
                         /\ de[2] >= de[1] + 3
                         /\ AllIn(s, de[1] + 2, de[2], TldChars)
                         /\ WordBoundary(s, de[2] + 1)}
          IN IF ends = {} THEN 0
             ELSE LET d == Greatest({de[1] : de \in ends})
                      e == Greatest({de[2] : de \in {x \in ends : x[1] = d}})
                  IN e - i + 1

\* the length of the match of \b\d{6,}\b at s[i]
IdMatch(s, i) ==
  LET stops == {j \in i..(Len(s) + 1) : CharAt(s, j) \notin Digits}
      n == Least(stops) - i
  IN IF WordBoundary(s, i) /\ n >= 6 /\ WordBoundary(s, i + n) THEN n ELSE 0

PatternMatch(kind, s, i) ==
  CASE kind = "SSN" -> SsnMatch(s, i)
    [] kind = "PHONE" -> PhoneMatch(s, i)
    [] kind = "EMAIL" -> EmailMatch(s, i)
    [] OTHER -> IdMatch(s, i)

ReplacementToken(kind) ==
  CASE kind = "SSN" -> <<"[", "S", "S", "N", "]">>
    [] kind = "PHONE" -> <<"[", "P", "H", "O", "N", "E", "]">>
    [] kind = "EMAIL" -> <<"[", "E", "M", "A", "I", "L", "]">>
    [] OTHER -> <<"[", "I", "D", "]">>

\* re.sub(pattern, token, s), from position i on: the leftmost match is
\* replaced and the scan goes on behind it
RECURSIVE ReSub(_, _, _)
ReSub(kind, s, i) ==
  IF i > Len(s) THEN <<>>
  ELSE LET n == PatternMatch(kind, s, i) IN
         IF n > 0 THEN ReplacementToken(kind) \o ReSub(kind, s, i + n)
         ELSE <<s[i]>> \o ReSub(kind, s, i + 1)

\* _redact_pii_patterns
RedactPiiPatterns(s) ==
  ReSub("ID", ReSub("EMAIL", ReSub("PHONE", ReSub("SSN", s, 1), 1), 1), 1)

\* max_chars of _create_snippet
MaxChars == 20

RedactedToken == <<"[", "R", "E", "D", "A", "C", "T", "E", "D", "]">>

\* _create_snippet(text)
CreateSnippet(text) ==
  IF Len(text) <= MaxChars * 2 THEN RedactedToken
  ELSE RedactPiiPatterns(SubSeq(text, 1, MaxChars) \o <<".", ".", ".">>
                         \o SubSeq(text, Len(text) - MaxChars + 1, Len(text)))

\* the strings injected into the texts: an SSN, two phone numbers and an
\* e-mail address
PiiStrings ==
  [ssn |-> <<"1", "2", "3", "-", "4", "5", "-", "6", "7", "8", "9">>,
   phone |-> <<"5", "5", "5", "-", "1", "2", "3", "-", "4", "5", "6", "7">>,
   parens |-> <<"(", "5", "5", "5", ")", " ", "1", "2", "3", "4", "5", "6", "7">>,
   email |-> <<"j", "o", "@", "e", "x", ".", "c", "o", "m">>]

\* the characters next to an injected string; none stands for the filler
Neighbours == {<<>>, <<" ">>, <<"7">>, <<"_">>, <<".">>}

\* the number of filler characters of a long text
FillLen == 34

Filler(n) == [k \in 1..n |-> "x"]

\* the text with the injected string behind `before` filler characters; a
\* short text has no filler at all
SnippetText(a) ==
  IF a.short THEN a.left \o PiiStrings[a.pii] \o a.right
  ELSE Filler(a.before) \o a.left \o PiiStrings[a.pii] \o a.right
       \o Filler(FillLen - a.before)

SnippetArgs ==
  [pii : DOMAIN PiiStrings, before : 0..FillLen, left : Neighbours,
   right : Neighbours, short : BOOLEAN]

\* log_check building text_snippet for a text
CallCreateSnippet ==
  /\ libCall = NoLibCall
  /\ \E a \in SnippetArgs :
       /\ a.short => a.before = 0
       /\ libCall' = [fn |-> "create_snippet", arg |-> a,
                      ret |-> CreateSnippet(SnippetText(a))]
  /\ UNCHANGED libRestVars
  /\ UNCHANGED <<regVars, strVars, outVars, toolVars, guardVars, auditVars>>

\* ---- log_check and read_session_logs (app/guardrails_audit.py) ---------
\* the text_snippet values _create_snippet builds
Snippets == {"[REDACTED]", "first...last"}

\* a line of a log file; timestamp tells the records apart
LogLine(n, session_id, text_snippet) ==
  [timestamp |-> n, session_id |-> session_id, text_snippet |-> text_snippet]

LinesWritten ==
  LET RECURSIVE Sum(_)
      Sum(D) == IF D = {} THEN 0
                ELSE LET d == CHOOSE x \in D : TRUE
                     IN Len(log_files[d]) + Sum(D \ {d})
  IN Sum(Days)

\* log_check(session_id, ...): the record goes to the end of the file of
\* the current day; a failing open or write is logged and leaves no record
LogCheck(session_id, text_snippet, ok) ==
  /\ libCall = NoLibCall
  /\ LinesWritten < MaxLogChecks
  /\ log_files' =
       IF ok THEN [log_files EXCEPT ![utc_day] =
                    Append(@, LogLine(LinesWritten + 1, session_id, text_snippet))]
       ELSE log_files
  /\ UNCHANGED <<libCall, utc_day, xlsx_file, config_cache, slots, sessVars, check_call>>
  /\ UNCHANGED <<regVars, strVars, outVars, toolVars, guardVars, auditVars>>

\* midnight UTC passes
NextDay ==
  /\ utc_day < MaxDays
  /\ utc_day' = utc_day + 1
  /\ UNCHANGED <<libCall, log_files, xlsx_file, config_cache, slots, sessVars, check_call>>
  /\ UNCHANGED <<regVars, strVars, outVars, toolVars, guardVars, auditVars>>

\* log_dir.glob("guardrails_audit_*.ndjson"): the files that exist
LogFiles == {d \in Days : log_files[d] # <<>>}

\* the files, latest day first
RECURSIVE SortedDescending(_)
SortedDescending(D) ==
  IF D = {} THEN <<>>
  ELSE <<Greatest(D)>> \o SortedDescending(D \ {Greatest(D)})

\* sorted(...): the file names differ in the ISO date only
RECURSIVE Sorted(_)
Sorted(D) ==
  IF D = {} THEN <<>>
  ELSE <<Least(D)>> \o Sorted(D \ {Least(D)})

\* the inner loop of read_session_logs over the lines of one file
RECURSIVE ReadLines(_, _, _)
ReadLines(lines, session_id, include_text) ==
  IF lines = <<>> THEN <<>>
  ELSE LET entry == Head(lines) IN
         (IF entry.session_id = session_id
            THEN <<IF include_text THEN entry
                   ELSE [entry EXCEPT !.text_snippet = "[REDACTED]"]>>
            ELSE <<>>)
         \o ReadLines(Tail(lines), session_id, include_text)

\* the outer loop of read_session_logs over the sorted files
RECURSIVE ReadFiles(_, _, _)
ReadFiles(files, session_id, include_text) ==
  IF files = <<>> THEN <<>>
  ELSE ReadLines(log_files[Head(files)], session_id, include_text)
       \o ReadFiles(Tail(files), session_id, include_text)

\* read_session_logs going through the files latest day first
ReadSessionLogsNewestFirst(session_id, include_text) ==
  /\ libCall = NoLibCall
  /\ libCall' = [fn |-> "read_session_logs",
                 arg |-> [session_id |-> session_id, include_text |-> include_text],
                 ret |-> ReadFiles(SortedDescending(LogFiles), session_id, include_text)]
  /\ UNCHANGED libRestVars
  /\ UNCHANGED <<regVars, strVars, outVars, toolVars, guardVars, auditVars>>

\* read_session_logs(session_id, include_text)
ReadSessionLogs(session_id, include_text) ==
  /\ libCall = NoLibCall
  /\ libCall' = [fn |-> "read_session_logs",
                 arg |-> [session_id |-> session_id, include_text |-> include_text],
                 ret |-> ReadFiles(Sorted(LogFiles), session_id, include_text)]
  /\ UNCHANGED libRestVars
  /\ UNCHANGED <<regVars, strVars, outVars, toolVars, guardVars, auditVars>>

NextAudit ==
  \/ \E sid \in SessionNames, t \in Snippets, ok \in BOOLEAN : LogCheck(sid, t, ok)
  \/ NextDay
  \/ \E sid \in SessionNames, it \in BOOLEAN : ReadSessionLogs(sid, it)
  \/ LibReturn

\* ---- GuardrailsLoader.load (app/guardrails_loader.py) -------------------
RequiredRuleColumns ==
  {"rule_id", "category", "pattern_type", "pattern", "severity",
   "action_message", "noncompliance_description", "enabled"}

RequiredCategories ==
  {"PHI_HIPAA", "OFF_LABEL", "AE_DETECTION", "COMPARATIVE_CLAIM",
   "PRICING_REBATE", "UNAPPROVED_INDICATION", "GUARANTEE",
   "CLINICAL_GUIDANCE", "LANGUAGE_EN_ONLY", "PII_PROMPT"}

\* the lists of validate_pattern_type and validate_severity
AllowedPatternTypes == {"regex", "keyword", "llm_hint"}
AllowedSeverities == {"block", "rewrite", "warn"}

\* a cell of the enabled column as pandas reads it: a bool, a str, or the
\* float NaN of an empty cell
Cell(type, value) == [type |-> type, value |-> value]

EnabledCells == {Cell("bool", "True"), Cell("str", "no"), Cell("float", "nan")}

\* str.upper() on the strings of the enabled column
Upper(v) == CASE v = "yes" -> "YES" [] v = "no" -> "NO" [] OTHER -> v

\* bool(v) of a value that is not a str
Truthy(cell) == cell.value \notin {"False", "0", "0.0"}

\* GuardrailRule.parse_enabled
ParseEnabled(cell) ==
  IF cell.type = "str" THEN Upper(cell.value) \in {"TRUE", "YES", "1", "ENABLED"}
  ELSE Truthy(cell)

\* a row of the sheet rules_v1
Row(category, pattern_type, severity, enabled) ==
  [category |-> category, pattern_type |-> pattern_type,
   severity |-> severity, enabled |-> enabled]

\* the number of rows of a sheet
MaxRows == 2

SheetRows ==
  {Row(c, p, s, e) : c \in {"PHI_HIPAA", "OFF_LABEL"},
                     p \in {"llm_hint", "Regex"},
                     s \in {"block", "high"},
                     e \in EnabledCells}

\* a workbook: its sheets, the columns and the rows of rules_v1
Workbook(sheets, columns, rows) ==
  [sheets |-> sheets, columns |-> columns, rows |-> rows]

SheetSets == {{"rules_v1", "language_policies"}, {"rules_v1"}, {"language_policies"}}

ColumnSets == {RequiredRuleColumns \cup {"notes"}, RequiredRuleColumns \ {"severity"}}

Workbooks ==
  {Workbook(sh, co, ro) :
     sh \in SheetSets, co \in ColumnSets,
     ro \in UNION {[1..n -> SheetRows] : n \in 0..MaxRows}}

\* GuardrailRule(...) of a row: the validators raise or the rule is built
RowIsValid(row) ==
  /\ row.pattern_type \in AllowedPatternTypes
  /\ row.severity \in AllowedSeverities

ParseRow(row) == [row EXCEPT !.enabled = ParseEnabled(row.enabled)]

NoConfig == [raised |-> TRUE, rules |-> <<>>, language_policy |-> FALSE]

\* load() that leaves out the rows it cannot parse
LoadSkippingRows(wb) ==
  IF "rules_v1" \notin wb.sheets \/ ~(RequiredRuleColumns \subseteq wb.columns)
    THEN NoConfig
  ELSE [raised |-> FALSE,
        rules |-> [i \in 1..Len(SelectSeq(wb.rows, RowIsValid)) |->
                     ParseRow(SelectSeq(wb.rows, RowIsValid)[i])],
        language_policy |-> "language_policies" \in wb.sheets]

\* load(): the configuration built from the workbook, or RuntimeError
Load(wb) ==
  IF \/ "rules_v1" \notin wb.sheets
     \/ ~(RequiredRuleColumns \subseteq wb.columns)
     \/ \E i \in DOMAIN wb.rows : ~RowIsValid(wb.rows[i])
    THEN NoConfig
  ELSE [raised |-> FALSE,
        rules |-> [i \in DOMAIN wb.rows |-> ParseRow(wb.rows[i])],
        language_policy |-> "language_policies" \in wb.sheets]

\* the categories load() warns about
MissingCategories(config) ==
  RequiredCategories \
    {config.rules[i].category : i \in {j \in DOMAIN config.rules : config.rules[j].enabled}}

\* loader.load() on a workbook
CallLoad ==
  /\ libCall = NoLibCall
  /\ \E wb \in Workbooks : libCall' = [fn |-> "load", arg |-> wb, ret |-> Load(wb)]
  /\ UNCHANGED libRestVars
  /\ UNCHANGED <<regVars, strVars, outVars, toolVars, guardVars, auditVars>>

\* ---- load_guardrails (app/guardrails_loader.py) ------------------------
\* the workbooks written to docs/guardrails.xlsx
StoredWorkbooks ==
  [shipped |-> Workbook({"rules_v1", "language_policies"},
                        RequiredRuleColumns \cup {"notes"},
                        <<Row("PHI_HIPAA", "regex", "block", Cell("bool", "True"))>>),
   edited |-> Workbook({"rules_v1", "language_policies"},
                       RequiredRuleColumns \cup {"notes"},
                       <<Row("PHI_HIPAA", "regex", "block", Cell("bool", "False")),
                         Row("OFF_LABEL", "keyword", "warn", Cell("bool", "True"))>>),
   broken |-> Workbook({"rules_v1"}, RequiredRuleColumns,
                       <<Row("PHI_HIPAA", "regex", "high", Cell("bool", "True"))>>)]

\* somebody saves the workbook; a save within the resolution of st_mtime
\* leaves the modification time as it was
WriteFile(name, later) ==
  /\ libCall = NoLibCall
  /\ xlsx_file.generation <= MaxWrites
  /\ xlsx_file' = [workbook |-> name,
                   generation |-> xlsx_file.generation + 1,
                   mtime |-> IF later THEN xlsx_file.mtime + 1 ELSE xlsx_file.mtime]
  /\ UNCHANGED <<libCall, log_files, utc_day, config_cache, slots, sessVars, check_call>>
  /\ UNCHANGED <<regVars, strVars, outVars, toolVars, guardVars, auditVars>>

\* has_file_changed(last_modified)
HasFileChanged(last_modified) == xlsx_file.mtime > last_modified

\* loader.load() on the file as it is: the configuration of this generation
LoadFile ==
  [present |-> TRUE, generation |-> xlsx_file.generation,
   raised |-> Load(StoredWorkbooks[xlsx_file.workbook]).raised,
   rules |-> Load(StoredWorkbooks[xlsx_file.workbook]).rules,
   file_modified |-> xlsx_file.mtime]

\* load_guardrails storing whatever its reload produced
LoadGuardrailsStoringFailure(force_reload) ==
  LET should_reload ==
        \/ force_reload
        \/ ~config_cache.present
        \/ HasFileChanged(config_cache.file_modified)
  IN /\ libCall = NoLibCall
     /\ config_cache' = IF should_reload THEN LoadFile ELSE config_cache
     /\ libCall' = [fn |-> "load_guardrails", arg |-> [force_reload |-> force_reload],
                    ret |-> config_cache']
     /\ UNCHANGED <<log_files, utc_day, xlsx_file, slots, sessVars, check_call>>
     /\ UNCHANGED <<regVars, strVars, outVars, toolVars, guardVars, auditVars>>

\* load_guardrails(force_reload): libCall.ret.raised says that the call
\* raised RuntimeError instead of returning
LoadGuardrails(force_reload) ==
  LET should_reload ==
        \/ force_reload
        \/ ~config_cache.present
        \/ HasFileChanged(config_cache.file_modified)
  IN /\ libCall = NoLibCall
     /\ config_cache' = IF should_reload /\ ~LoadFile.raised THEN LoadFile
                        ELSE config_cache
     /\ libCall' = [fn |-> "load_guardrails", arg |-> [force_reload |-> force_reload],
                    ret |-> IF should_reload /\ LoadFile.raised THEN LoadFile
                            ELSE config_cache']
     /\ UNCHANGED <<log_files, utc_day, xlsx_file, slots, sessVars, check_call>>
     /\ UNCHANGED <<regVars, strVars, outVars, toolVars, guardVars, auditVars>>

\* what load_guardrails() leaves in _config_cache and what it returns
CacheAfterLoad ==
  IF (~config_cache.present \/ HasFileChanged(config_cache.file_modified))
     /\ ~LoadFile.raised
    THEN LoadFile
  ELSE config_cache

LoadRaises ==
  /\ ~config_cache.present \/ HasFileChanged(config_cache.file_modified)
  /\ LoadFile.raised

\* guardrails.check(text, locale) on a text that is not blank, up to the
\* return of get_language_policy() in _check_language: the cached
\* configuration is read through load_guardrails(), which raises when its
\* reload fails.  "blocked" says that the locale is refused by the policy
\* read, and check() then returns without reading the rules.
CheckLanguageStep(blocked) ==
  /\ libCall = NoLibCall
  /\ check_call.pc = "idle"
  /\ config_cache' = CacheAfterLoad
  /\ check_call' = IF LoadRaises THEN [NoCheckCall EXCEPT !.pc = "raised"]
                   ELSE [pc |-> IF blocked THEN "returned" ELSE "rules",
                         policy |-> CacheAfterLoad.generation, rules |-> 0]
  /\ UNCHANGED <<libCall, log_files, utc_day, xlsx_file, slots, sessVars>>
  /\ UNCHANGED <<regVars, strVars, outVars, toolVars, guardVars, auditVars>>

\* check() from get_enabled_rules() on: the cached configuration is read a
\* second time through load_guardrails(), and the rules of what it returns
\* are evaluated
CheckRulesStep ==
  /\ check_call.pc = "rules"
  /\ config_cache' = CacheAfterLoad
  /\ check_call' = IF LoadRaises THEN [check_call EXCEPT !.pc = "raised"]
                   ELSE [check_call EXCEPT !.pc = "returned",
                                           !.rules = CacheAfterLoad.generation]
  /\ UNCHANGED <<libCall, log_files, utc_day, xlsx_file, slots, sessVars>>
  /\ UNCHANGED <<regVars, strVars, outVars, toolVars, guardVars, auditVars>>

\* the caller has the result of check(), or its exception
CheckReturn ==
  /\ check_call.pc \in {"returned", "raised"}
  /\ check_call' = NoCheckCall
  /\ UNCHANGED <<libCall, log_files, utc_day, xlsx_file, config_cache, slots, sessVars>>
  /\ UNCHANGED <<regVars, strVars, outVars, toolVars, guardVars, auditVars>>

\* checks while the workbook is saved by its editors
NextEngine ==
  \/ \E name \in DOMAIN StoredWorkbooks, later \in BOOLEAN : WriteFile(name, later)
  \/ \E blocked \in BOOLEAN : CheckLanguageStep(blocked)
  \/ CheckRulesStep
  \/ CheckReturn

NextLoader ==
  \/ \E name \in DOMAIN StoredWorkbooks, later \in BOOLEAN : WriteFile(name, later)
  \/ \E force_reload \in BOOLEAN : LoadGuardrails(force_reload)
  \/ LibReturn

\* ---- handle_lookup_hcp_tool (app/tools.py, app/prompting.py) -----------
UpperCase ==
  <<"A", "B", "C", "D", "E", "F", "G", "H", "I", "J", "K", "L", "M",
    "N", "O", "P", "Q", "R", "S", "T", "U", "V", "W", "X", "Y", "Z">>

LowerCase ==
  <<"a", "b", "c", "d", "e", "f", "g", "h", "i", "j", "k", "l", "m",
    "n", "o", "p", "q", "r", "s", "t", "u", "v", "w", "x", "y", "z">>

\* str.lower()
StrLower(s) ==
  [i \in DOMAIN s |->
     IF \E k \in DOMAIN UpperCase : UpperCase[k] = s[i]
       THEN LowerCase[CHOOSE k \in DOMAIN UpperCase : UpperCase[k] = s[i]]
     ELSE s[i]]

\* str.strip()
StrStrip(s) ==
  LET inked == {i \in DOMAIN s : s[i] # " "}
  IN IF inked = {} THEN <<>> ELSE SubSeq(s, Least(inked), Greatest(inked))

\* a in b
IsIn(a, b) == \E i \in 1..(Len(b) - Len(a) + 1) : SubSeq(b, i, i + Len(a) - 1) = a

\* HCP_NAME_TO_ID_MAP, in the order of its declaration
HcpNameToIdMap ==
  <<[name |-> <<"D", "r", ".", " ", "W", "i", "l", "l", "i", "a", "m", " ", "H", "a", "r", "p", "e", "r">>,
     id |-> "0013K000013ez2RQAQ"],
    [name |-> <<"D", "r", ".", " ", "S", "u", "s", "a", "n", " ", "C", "a", "r", "t", "e", "r">>,
     id |-> "0013K000013ez2SQAQ"],
    [name |-> <<"D", "r", ".", " ", "J", "a", "m", "e", "s", " ", "L", "a", "w", "s", "o", "n">>,
     id |-> "0013K000013ez2TQAQ"],
    [name |-> <<"D", "r", ".", " ", "E", "m", "i", "l", "y", " ", "H", "u", "g", "h", "e", "s">>,
     id |-> "0013K000013ez2UQAQ"],
    [name |-> <<"D", "r", ".", " ", "R", "i", "c", "h", "a", "r", "d", " ", "T", "h", "o", "m", "p", "s", "o", "n">>,
     id |-> "0013K000013ez2VQAQ"],
    [name |-> <<"D", "r", ".", " ", "S", "a", "r", "a", "h", " ", "P", "h", "i", "l", "l", "i", "p", "s">>,
     id |-> "0013K000013ez2WQAQ"],
    [name |-> <<"D", "r", ".", " ", "J", "o", "h", "n", " ", "A", "n", "d", "e", "r", "s", "o", "n">>,
     id |-> "0013K000013ez2XQAQ"],
    [name |-> <<"D", "r", ".", " ", "L", "i", "s", "a", " ", "C", "o", "l", "l", "i", "n", "s">>,
     id |-> "0013K000013ez2YQAQ"],
    [name |-> <<"D", "r", ".", " ", "D", "a", "v", "i", "d", " ", "H", "a", "r", "r", "i", "s">>,
     id |-> "0013K000013ez2ZQAQ"],
    [name |-> <<"D", "r", ".", " ", "A", "m", "y", " ", "S", "c", "o", "t", "t">>,
     id |-> "0013K000013ez2aQAA"],
    [name |-> <<"D", "r", ".", " ", "O", "l", "i", "v", "i", "a", " ", "W", "e", "l", "l", "s">>,
     id |-> "0013K000013ez2bQAA"],
    [name |-> <<"D", "r", ".", " ", "B", "e", "n", "j", "a", "m", "i", "n", " ", "S", "t", "o", "n", "e">>,
     id |-> "0013K000013ez2cQAA"],
    [name |-> <<"D", "r", ".", " ", "G", "r", "a", "c", "e", " ", "M", "i", "t", "c", "h", "e", "l", "l">>,
     id |-> "0013K000013ez2dQAA"],
    [name |-> <<"D", "r", ".", " ", "L", "u", "c", "a", "s", " ", "C", "h", "a", "n", "g">>,
     id |-> "0013K000013ez2eQAA"],
    [name |-> <<"D", "r", ".", " ", "S", "o", "p", "h", "i", "a", " ", "P", "a", "t", "e", "l">>,
     id |-> "0013K000013ez2fQAA"],
    [name |-> <<"D", "r", ".", " ", "N", "a", "t", "h", "a", "n", " ", "R", "i", "v", "e", "r", "a">>,
     id |-> "0013K000013ez2gQAA"]>>

NoId == "None"

\* the partial match of lookup_hcp_id taking the last entry that matches
PartialMatchLast(hcp_name) ==
  LET hits == {k \in DOMAIN HcpNameToIdMap :
                 \/ IsIn(StrLower(hcp_name), StrLower(HcpNameToIdMap[k].name))
                 \/ IsIn(StrLower(HcpNameToIdMap[k].name), StrLower(hcp_name))}
  IN IF hits = {} THEN NoId ELSE HcpNameToIdMap[Greatest(hits)].id

\* the loop of lookup_hcp_id over HCP_NAME_TO_ID_MAP.items()
PartialMatch(hcp_name) ==
  LET hits == {k \in DOMAIN HcpNameToIdMap :
                 \/ IsIn(StrLower(hcp_name), StrLower(HcpNameToIdMap[k].name))
                 \/ IsIn(StrLower(HcpNameToIdMap[k].name), StrLower(hcp_name))}
  IN IF hits = {} THEN NoId ELSE HcpNameToIdMap[Least(hits)].id

\* lookup_hcp_id(hcp_name): HCP_NAME_TO_ID_MAP_LOWER first
LookupHcpId(hcp_name) ==
  LET exact == {k \in DOMAIN HcpNameToIdMap :
                  StrLower(HcpNameToIdMap[k].name) = StrLower(hcp_name)}
  IN IF exact # {} THEN HcpNameToIdMap[Greatest(exact)].id
     ELSE PartialMatch(hcp_name)

\* what fetch_hcp_by_name comes back with: a row, None, or an exception
RedshiftRow == [hcp_id |-> "HCP-77", hco_id |-> "HCO-5", hco_name |-> "Mercy Clinic"]

RedshiftOutcomes == {"row", "none", "raises"}

\* the names the tool is called with
LookupNames ==
  {<<"D", "r", ".", " ", "W", "i", "l", "l", "i", "a", "m", " ", "H", "a", "r", "p", "e", "r">>,
   <<"d", "r", ".", " ", "w", "i", "l", "l", "i", "a", "m", " ", "h", "a", "r", "p", "e", "r">>,
   <<"H", "a", "r", "p", "e", "r">>,
   <<" ", " ", "h", "a", "r", "p", "e", "r", " ">>,
   <<"a", "r">>,
   <<"s", "o", "n">>,
   <<"D", "r", ".", " ", "A", "m", "y", " ", "S", "c", "o", "t", "t", ",", " ", "M", "D">>,
   <<"D", "r", ".", " ", "U", "n", "k", "n", "o", "w", "n", " ", "D", "o", "c", "t", "o", "r">>,
   <<"H">>,
   <<" ", "H", " ">>,
   <<>>,
   <<"D", "r">>}

\* handle_lookup_hcp_tool({"name": name}) with the outcome of the Redshift
\* query
HandleLookupHcpTool(raw, redshift) ==
  LET name == StrStrip(raw)
      hcp_id == LookupHcpId(name)
  IN IF Len(name) < 2
       THEN [found |-> FALSE, hcp_id |-> NoId, hco_id |-> NoId, hco_name |-> NoId,
             source |-> NoId, error |-> "Name must be at least 2 characters"]
     ELSE IF redshift = "row"
       THEN [found |-> TRUE, hcp_id |-> RedshiftRow.hcp_id,
             hco_id |-> RedshiftRow.hco_id, hco_name |-> RedshiftRow.hco_name,
             source |-> "redshift"]
     ELSE IF hcp_id # NoId
       THEN [found |-> TRUE, hcp_id |-> hcp_id, hco_id |-> NoId, hco_name |-> NoId,
             source |-> "static"]
     ELSE [found |-> FALSE, hcp_id |-> NoId, hco_id |-> NoId, hco_name |-> NoId,
           source |-> NoId]

\* execute_tool("lookupHcpTool", {"name": name})
CallLookupHcp ==
  /\ libCall = NoLibCall
  /\ \E raw \in LookupNames, redshift \in RedshiftOutcomes :
       libCall' = [fn |-> "lookupHcpTool",
                   arg |-> [name |-> raw, redshift |-> redshift],
                   ret |-> HandleLookupHcpTool(raw, redshift)]
  /\ UNCHANGED libRestVars
  /\ UNCHANGED <<regVars, strVars, outVars, toolVars, guardVars, auditVars>>

\* ---- ConversationSession and get_next_question (app/prompting.py) ------
\* the values a slot is set to: None, the empty string, a text, and False
SlotValues == {NoValue, "", "2025-10-28", "False"}

\* the slot names set_slot is called with; "location" is no slot
SlotNames == DOMAIN InitialSlots \cup {"location"}

\* session.set_slot(slot_name, value)
SetSlot(slot_name, value) ==
  /\ libCall = NoLibCall
  /\ slots' = IF slot_name \in DOMAIN slots
                THEN [slots EXCEPT ![slot_name] = value]
              ELSE slots
  /\ UNCHANGED <<libCall, log_files, utc_day, xlsx_file, config_cache, sessVars, check_call>>
  /\ UNCHANGED <<regVars, strVars, outVars, toolVars, guardVars, auditVars>>

\* is_slot_filled taking the empty string for a value
IsSlotFilledNotNone(slot_name) == slots[slot_name] # NoValue

\* session.is_slot_filled(slot_name)
IsSlotFilled(slot_name) ==
  slots[slot_name] # NoValue /\ slots[slot_name] # ""

\* session.get_missing_required_slots()
GetMissingRequiredSlots ==
  SelectSeq(RequiredSlots, LAMBDA slot : ~IsSlotFilled(slot))

\* slot_questions of get_next_question
SlotQuestions ==
  [hcp_name |-> "Could you please tell me the name of the healthcare professional you met with?",
   date |-> "What date did this meeting take place?",
   time |-> "What time was the meeting?",
   product |-> "Which product did you discuss during the meeting?"]

\* get_next_question(session)
GetNextQuestion ==
  LET missing_slots == GetMissingRequiredSlots
      asked == {k \in DOMAIN RequiredSlots :
                  \E m \in DOMAIN missing_slots : missing_slots[m] = RequiredSlots[k]}
  IN IF missing_slots = <<>> THEN NoValue
     ELSE SlotQuestions[RequiredSlots[Least(asked)]]

CallGetNextQuestion ==
  /\ libCall = NoLibCall
  /\ libCall' = [fn |-> "get_next_question", arg |-> slots, ret |-> GetNextQuestion]
  /\ UNCHANGED libRestVars
  /\ UNCHANGED <<regVars, strVars, outVars, toolVars, guardVars, auditVars>>

\* the values the required slots take while the record is produced
RecordValues == {NoValue, "", "2025-10-28"}

\* the names confirm_slot is called with
ConfirmNames == {"hcp_name", "summary"}

\* session.confirm_slot(slot_name)
ConfirmSlot(slot_name) ==
  /\ libCall = NoLibCall
  /\ slot_name \notin confirmed_slots
  /\ confirmed_slots' = confirmed_slots \cup {slot_name}
  /\ UNCHANGED <<libCall, log_files, utc_day, xlsx_file, config_cache, slots,
                 summary_read_back, output_json, check_call>>
  /\ UNCHANGED <<regVars, strVars, outVars, toolVars, guardVars, auditVars>>

\* session.generate_output_json(): the fields taken from the required slots
\* and hcp_id; the call returns the record it stores
GenerateOutputJson ==
  /\ libCall = NoLibCall
  /\ LET output == [present |-> TRUE,
                    account |-> slots["hcp_name"],
                    id |-> slots["hcp_id"],
                    call_date |-> slots["date"],
                    call_time |-> slots["time"],
                    product |-> slots["product"],
                    call_notes |-> slots["call_notes"]]
     IN /\ output_json' = output
        /\ libCall' = [fn |-> "generate_output_json", arg |-> slots, ret |-> output]
  /\ UNCHANGED <<log_files, utc_day, xlsx_file, config_cache, slots,
                 confirmed_slots, summary_read_back, check_call>>
  /\ UNCHANGED <<regVars, strVars, outVars, toolVars, guardVars, auditVars>>

NextRecord ==
  \/ \E k \in DOMAIN RequiredSlots, value \in RecordValues :
       SetSlot(RequiredSlots[k], value)
  \/ \E slot_name \in ConfirmNames : ConfirmSlot(slot_name)
  \/ GenerateOutputJson
  \/ LibReturn

NextSession ==
  \/ \E slot_name \in SlotNames, value \in SlotValues : SetSlot(slot_name, value)
  \/ CallGetNextQuestion
  \/ LibReturn

\* ---- keyword rules (GuardrailsEngine._match_keyword, app/guardrails.py) --
\* pattern.split(','): the pieces between the commas, in their order
Commas(pattern) == {i \in DOMAIN pattern : pattern[i] = ","}

CommaAt(pattern, k) ==
  IF k = 0 THEN 0
  ELSE IF k > Cardinality(Commas(pattern)) THEN Len(pattern) + 1
  ELSE CHOOSE i \in Commas(pattern) :
         Cardinality({j \in Commas(pattern) : j < i}) = k - 1

Split(pattern) ==
  [k \in 1..(Cardinality(Commas(pattern)) + 1) |->
     SubSeq(pattern, CommaAt(pattern, k - 1) + 1, CommaAt(pattern, k) - 1)]

\* keywords = [k.strip().lower() for k in pattern.split(',')]
Keywords(pattern) ==
  [k \in DOMAIN Split(pattern) |-> StrLower(StrStrip(Split(pattern)[k]))]

\* re.search(r'\b' + re.escape(keyword) + r'\b', text_lower)
KeywordSearch(keyword, text_lower) ==
  \E i \in 1..(Len(text_lower) + 1 - Len(keyword)) :
    /\ WordBoundary(text_lower, i)
    /\ SubSeq(text_lower, i, i + Len(keyword) - 1) = keyword
    /\ WordBoundary(text_lower, i + Len(keyword))

\* None, as the result of a match
NoKeyword == [found |-> FALSE, keyword |-> <<>>]

\* _match_keyword(pattern, text): the first keyword that matches
MatchKeyword(pattern, text) ==
  LET keywords == Keywords(pattern)
      hits == {k \in DOMAIN keywords : KeywordSearch(keywords[k], StrLower(text))}
  IN IF hits = {} THEN NoKeyword
     ELSE [found |-> TRUE, keyword |-> keywords[Least(hits)]]

\* _check_rule on a keyword rule: "if matched_text:" takes the empty string
\* for no match
CheckKeywordRule(pattern, text) ==
  LET matched_text == MatchKeyword(pattern, text)
  IN IF matched_text.found /\ matched_text.keyword # <<>>
       THEN [violated |-> TRUE, matched_text |-> matched_text.keyword]
     ELSE [violated |-> FALSE, matched_text |-> <<>>]

\* the pattern cells of keyword rules: lists as docs/guardrails.xlsx has
\* them, with blanks and capitals, and lists with an empty item
KeywordPatterns ==
  { <<"c", "u", "r", "e", ",", "b", "e", "s", "t">>,
    <<"C", "u", "r", "e", " ", ",", " ", "B", "e", "s", "t">>,
    <<"b", "e", "s", "t">>,
    <<"c", "o", "s", "t", ",", "p", "r", "i", "c", "e", ",", "c", "o", "p", "a", "y">>,
    <<"o", "f", "f", "-", "l", "a", "b", "e", "l", ",", "u", "n", "a", "p", "p", "r", "o", "v", "e", "d", " ", "u", "s", "e">>,
    <<",", "b", "e", "s", "t">>,
    <<"c", "u", "r", "e", ",", ",", "b", "e", "s", "t">>,
    <<"b", "e", "s", "t", ",">>,
    <<"1", "0", "0", "%", ",", "b", "e", "s", "t">>,
    <<"w", "i", "l", "l", " ", "c", "u", "r", "e", ",", " ", "B", "E", "S", "T", " ">> }

\* the texts the rules are checked against
KeywordTexts ==
  { <<"t", "h", "e", " ", "b", "e", "s", "t">>,
    <<"b", "e", "s", "t", "e", "s", "t">>,
    <<"B", "E", "S", "T", ".">>,
    <<"a", " ", "c", "u", "r", "e">>,
    <<"b", "e", "s", "t", " ", "c", "u", "r", "e">>,
    <<"x", "_", "b", "e", "s", "t">>,
    <<>>,
    <<"o", "f", "f", "-", "l", "a", "b", "e", "l", " ", "u", "s", "e">>,
    <<"o", "f", "f", " ", "l", "a", "b", "e", "l">>,
    <<"i", "s", " ", "1", "0", "0", "%", " ", "s", "a", "f", "e">>,
    <<"i", "t", " ", "w", "i", "l", "l", " ", "c", "u", "r", "e">>,
    <<"t", "h", "e", " ", "p", "r", "i", "c", "e">> }

CallCheckRule ==
  /\ libCall = NoLibCall
  /\ \E pattern \in KeywordPatterns, text \in KeywordTexts :
       libCall' = [fn |-> "_check_rule", arg |-> [pattern |-> pattern, text |-> text],
                   ret |-> CheckKeywordRule(pattern, text)]
  /\ UNCHANGED libRestVars
  /\ UNCHANGED <<regVars, strVars, outVars, toolVars, guardVars, auditVars>>

NextKeyword ==
  \/ CallCheckRule
  \/ LibReturn

NextLib ==
  \/ CallCreateSnippet
  \/ CallLoad
  \/ CallLookupHcp
  \/ LibReturn

Init == InitRegistry /\ InitTools /\ InitStream /\ InitOutput /\ InitGuard /\ InitLib

SpecRegistry == Init /\ [][NextRegistry]_vars

SpecTools == Init /\ [][NextTools]_vars

SpecStream == Init /\ [][NextStream]_vars

SpecOutput == Init /\ [][NextOutput]_vars

SpecGuard == Init /\ [][NextGuard]_vars

SpecLib == Init /\ [][NextLib]_vars

SpecAudit == Init /\ [][NextAudit]_vars

SpecLoader == Init /\ [][NextLoader]_vars

SpecSubscribers == Init /\ [][NextSubscribers]_vars

SpecSession == Init /\ [][NextSession]_vars

SpecFailure == Init /\ [][NextFailure]_vars

SpecEngine == Init /\ [][NextEngine]_vars

SpecKeyword == Init /\ [][NextKeyword]_vars

SpecClose == Init /\ [][NextClose]_vars

SpecOverlap == Init /\ [][NextOverlap]_vars

SpecConsumers == Init /\ [][NextConsumers]_vars /\ FairConsumers

SpecRecord == Init /\ [][NextRecord]_vars

SpecAudioInput == Init /\ [][NextAudio]_vars

(***************************************************************************)
(* Claims about the SessionManager, checked under SpecRegistry.            *)
(***************************************************************************)

\* C1: under every interleaving of create_session, end_session and the idle
\* sweep, create_session calls that overlap included, the number of sessions
\* with status ACTIVE never exceeds max_concurrent_sessions.
\* The code counts before "await client.initialize_stream()" and stores
\* after it, so two callers that both counted below the ceiling both store.
C1_ActiveNeverExceedsCeiling == ActiveSessions <= MaxConcurrentSessions

\* C2: a create_session call made while the number of ACTIVE sessions equals
\* max_concurrent_sessions fails at once with the capacity error: no caller
\* goes on to initialize_stream, and the call that raises the error
\* constructs no client, opens no provider stream and leaves sessions and
\* session_info unchanged.
C2_CreateAtCeilingFails ==
  [][ (ActiveSessions = MaxConcurrentSessions)
      => /\ \A p \in Creators : crPc[p] = "idle" => crPc'[p] = "idle"
         /\ (crPc' = crPc /\ crRaised' # crRaised)
            => ( /\ crRaised' = "capacity"
                 /\ opened' = opened
                 /\ nextSid' = nextSid
                 /\ sessions' = sessions
                 /\ session_info' = session_info
                 /\ info_order' = info_order
                 /\ is_active' = is_active ) ]_vars

\* C2 witness: a caller was turned away with the capacity error while the
\* registry was full.
C2_Witness ==
  /\ crRaised = "capacity"
  /\ ActiveSessions = MaxConcurrentSessions

\* C9: when end_session(id) returns for a registered id, the client is
\* closed, the status is ENDED and the id is no longer in sessions.  (The
\* call on an unknown id is the branch of ClientEndSession that leaves every
\* variable unchanged.)
C9_EndSessionEndsAndRemoves ==
  [][\A e \in Enders :
       (endPc[e] = "closing" /\ endSid'[e] # endSid[e])
       => ( /\ ~is_active'[endSid[e]]
            /\ session_info'[endSid[e]] = "ended"
            /\ endSid[e] \notin sessions' )]_vars

\* C10: the idle sweep ends exactly the ACTIVE sessions whose idle duration
\* (now - last_activity) exceeds session_timeout: a pass takes up every one
\* of them, the sweep starts to end no session whose idle duration is at most
\* the timeout, and every session it has ended is ENDED and removed from the
\* registry.
C10_SweepEndsExactlyIdleSessions ==
  [][ /\ (endPc["sweep"] = "idle" /\ endPc'["sweep"] = "closing")
         => \A s \in Sids :
              (session_info[s] = "active" /\ now - last_activity[s] > SessionTimeout)
              => \/ s = endSid'["sweep"]
                 \/ \E i \in DOMAIN sweepList' : sweepList'[i] = s
                 \/ session_info'[s] = "ended"
      /\ (endPc'["sweep"] = "closing" /\ endSid'["sweep"] # endSid["sweep"])
         => now - last_activity[endSid'["sweep"]] > SessionTimeout
      /\ (endPc["sweep"] = "closing" /\ endSid'["sweep"] # endSid["sweep"])
         => ( /\ session_info'[endSid["sweep"]] = "ended"
              /\ endSid["sweep"] \notin sessions' ) ]_vars

\* C11: when shutdown() returns, the sweep task is stopped, no session is
\* registered any more, and every session the registry has known has
\* finished closing.
C11_ShutdownLeavesNothing ==
  [][ (shutPc # "returned" /\ shutPc' = "returned")
      => ( /\ endPc'["sweep"] = "stopped"
           /\ sessions' = {}
           /\ \A s \in Sids : session_info'[s] # "none" => ~is_active'[s] ) ]_vars

\* C13: when the open of the followed session's provider stream times out
\* or fails, the create_session call that made it ends with a connection
\* error, the client is left not active, no event has been sent to the
\* provider, and sessions and session_info are as they were, without an
\* entry for the session.
C13_OpenFailureRegistersNothing ==
  [][ (stream = "none" /\ stream' = "failed")
      => ( /\ \E p \in Creators :
                /\ crSid[p] = StreamSid
                /\ crPc[p] = "init" /\ crPc'[p] = "idle"
           /\ crRaised' = "conn_error"
           /\ ~is_active'[StreamSid]
           /\ sent' = <<>>
           /\ respPc' = "none"
           /\ sessions' = sessions /\ session_info' = session_info
           /\ StreamSid \notin sessions'
           /\ session_info'[StreamSid] = "none" ) ]_vars

\* the open failed while another session was registered
C13_Witness ==
  /\ stream = "failed"
  /\ crRaised = "conn_error"
  /\ sessions # {}

(***************************************************************************)
(* Claims about tool dispatch, checked under SpecTools.                     *)
(***************************************************************************)

ToolSequence(n) == SelectSeq(sent, LAMBDA e : e.content = ToolContent(n))

\* how often event e was sent
TimesSent(e) == Cardinality({i \in DOMAIN sent : sent[i] = e})

\* C5: between the tool-result contentStart and the matching contentEnd of
\* one toolUse, the session sends no other provider-bound event: every
\* event sent between the two carries the content name of that tool result.
C5_ToolResultNotInterleaved ==
  \A i \in DOMAIN sent : \A k \in DOMAIN sent :
    ( /\ i < k
      /\ sent[i].ev = "contentStart" /\ sent[i].content[1] = "tool"
      /\ sent[k].ev = "contentEnd" /\ sent[k].content = sent[i].content )
    => \A j \in (i + 1)..(k - 1) : sent[j].content = sent[i].content

\* C6: for every toolUse received, once the response loop is past its
\* round trip (it waits for the next provider event, or has ended), the
\* session has sent exactly contentStart carrying the toolUseId, toolResult
\* and contentEnd, in this order, under one content name.
C6_EveryToolUseAnswered ==
  respPc \in {"recv", "done", "cancelled"}
  => \A n \in 1..nRecv :
       ToolSequence(n) = << Ev("contentStart", ToolContent(n), n),
                            Ev("toolResult", ToolContent(n), 0),
                            Ev("contentEnd", ToolContent(n), 0) >>

\* C8: close() is idempotent, so that each of the closing events (the audio
\* contentEnd, promptEnd, sessionEnd) is sent at most once per session.
\* (Stated for the sessions on which no client request, such as
\* POST /audio/end, has sent an event of its own: there every closing event
\* comes from close().)
C8_ClosingEventsAtMostOnce ==
  nClient = 0
  => \A stage \in {"ce", "pe", "se"} : TimesSent(ClosingEvent(stage)) <= 1

\* the kinds of the initialization events, in the order the provider
\* expects them
InitKinds == <<"sessionStart", "promptStart", "contentStart", "textInput",
               "contentEnd">>

Violations == gResult.violations

HasSeverity(v, sev) == \E i \in DOMAIN v : v[i].severity = sev

\* C14: for every list of violations a check returns, should_block is true
\* exactly when some violation has severity block, should_rewrite is true
\* exactly when none has severity block and some has severity rewrite, and
\* the two are never both true.
C14_BlockDominatesRewrite ==
  /\ ShouldBlock(Violations) <=> HasSeverity(Violations, "block")
  /\ ShouldRewrite(Violations) <=> ( /\ ~HasSeverity(Violations, "block")
                                     /\ HasSeverity(Violations, "rewrite") )
  /\ ~(ShouldBlock(Violations) /\ ShouldRewrite(Violations))

\* a result with a block and a rewrite violation has been returned
C14_Witness ==
  /\ gPc = "checked"
  /\ HasSeverity(Violations, "rewrite")
  /\ HasSeverity(Violations, "block")

\* the text holds one of the alternatives of the rule's pattern
TextMatches(rule, text) == \E i \in DOMAIN rule.pattern : rule.pattern[i] \in text

\* the rules of the checked configuration that are enabled, of severity
\* block, matched by pattern, and whose pattern the checked text matches
MatchedBlockRows ==
  {i \in DOMAIN gResult.config.rules :
     LET rule == gResult.config.rules[i] IN
       /\ rule.enabled
       /\ rule.severity = "block"
       /\ rule.pattern_type \in {"regex", "keyword"}
       /\ TextMatches(rule, gResult.text)}

C16_DisabledRuleNeverContributes ==
  gPc = "checked"
  => \A i \in DOMAIN Violations, j \in DOMAIN gResult.config.rules :
       ~gResult.config.rules[j].enabled
         => Violations[i].rule_id # gResult.config.rules[j].rule_id

\* the acceptance rule for locales: after normalising both sides, the
\* locale equals an allowed entry, or extends one by a dash-separated
\* suffix, or has the base language tag of one
LocaleAccepted(locale, policy) ==
  LET locale_norm == NormLocale(locale) IN
    \E i \in DOMAIN policy.allowed_locales :
      LET allowed == NormLocale(policy.allowed_locales[i]) IN
        \/ locale_norm = allowed
        \/ StartsWith(locale_norm, Append(allowed, "-"))
        \/ BaseTag(locale_norm) = BaseTag(allowed)

\* C17: when a language policy is configured and check is given a non-empty
\* text with a locale the policy does not allow, the result holds exactly
\* one violation, with rule id LANGUAGE_001, severity block and the
\* policy's fallback message, and no rule of the table contributes one.
C17_LanguageBlockIsFinal ==
  ( /\ gPc = "checked"
    /\ gResult.config.language_policy.present
    /\ gResult.text # {}
    /\ gResult.locale # NoLocale
    /\ ~LocaleAccepted(gResult.locale, gResult.config.language_policy) )
  => Violations = << Violation("LANGUAGE_001", "block",
                               gResult.config.language_policy.fallback_message) >>

\* C18: with a language policy configured, the locale check accepts a given
\* locale exactly when LocaleAccepted says so; every other locale is
\* rejected with the language violation.
C18_LocaleAcceptance ==
  ( /\ gPc = "checked"
    /\ gResult.config.language_policy.present
    /\ ~Blank(gResult.text)
    /\ gResult.locale # NoLocale )
  => ( (\E i \in DOMAIN Violations : Violations[i].rule_id = "LANGUAGE_001")
       <=> ~LocaleAccepted(gResult.locale, gResult.config.language_policy) )

\* C19: the audit entry written for a check result has action_taken passed
\* when the result has no violation, otherwise blocked if a violation has
\* severity block, otherwise rewritten if one has severity rewrite,
\* otherwise warned; its violated flag is true exactly when action_taken is
\* not passed.
C19_ActionTaken ==
  gPc = "logged"
  => /\ audit_entry.action_taken =
          ( IF Len(Violations) = 0 THEN "passed"
            ELSE IF HasSeverity(Violations, "block") THEN "blocked"
            ELSE IF HasSeverity(Violations, "rewrite") THEN "rewritten"
            ELSE "warned" )
     /\ audit_entry.violated <=> (audit_entry.action_taken # "passed")

\* an entry was written for a result with a block and a rewrite violation
C19_Witness ==
  /\ gPc = "logged"
  /\ audit_entry.severities = {"block", "rewrite"}

(***************************************************************************)
(* Claims about the output path, checked under SpecOutput.                 *)
(***************************************************************************)
AttachedConsumers == {c \in Consumers : cons[c] = "attached"}

\* C3: while one output consumer is attached to a session's output event
\* stream, a second one is rejected, so that at no time two output
\* consumers are attached to one session.
C3_AtMostOneConsumer == Cardinality(AttachedConsumers) <= 1

\* C4: for every textOutput of an assistant turn whose text check() would
\* block or rewrite, the transcript a client is sent, on the SSE stream and
\* on the WebSocket alike, carries the guardrail action message and never
\* the provider's text.
C4_BlockedTextReplaced ==
  \A c \in Consumers : \A i \in DOMAIN delivered[c] :
    LET d == delivered[c][i]
        v == Check(d.src.text)
    IN ( /\ d.kind = "transcript"
         /\ d.src.turn = "ASSISTANT"
         /\ ShouldBlock(v) \/ ShouldRewrite(v) )
       => d.text = {ActionMessage(v)}

\* C20: log_guardrail_check never raises to the SSE generator: whatever
\* fails while the audit record of an assistant text is built or written,
\* the step that takes the text from the queue sends the client its
\* transcript.
C20_TranscriptDespiteAuditFailure ==
  [][ \A c \in Consumers :
        ( /\ Kind(c) = "sse"
          /\ cons[c] = "attached"
          /\ queue[c] # <<>>
          /\ queue'[c] = Tail(queue[c])
          /\ SseChecks(Head(queue[c])) )
        => ( /\ Len(delivered'[c]) = Len(delivered[c]) + 1
             /\ delivered'[c][Len(delivered'[c])].kind = "transcript"
             /\ delivered'[c][Len(delivered'[c])].src = Head(queue[c]) ) ]_vars

\* the arrival numbers of the provider events a consumer has been handed:
\* those it has sent messages for, then those waiting in its queue
Arrivals(c) ==
  LET handled == [i \in DOMAIN delivered[c] |-> delivered[c][i].src.arrival]
      waiting == [i \in DOMAIN queue[c] |-> queue[c][i].arrival]
  IN SelectSeq(handled \o waiting, LAMBDA n : n > 0)

\* C28: the events read from the provider are handled one at a time in
\* arrival order by the one response loop, and every attached output
\* subscriber receives the published events in that order: what a consumer
\* has sent on and what waits in its queue is in arrival order.
C28_EventsInArrivalOrder ==
  \A c \in Consumers :
    \A i, j \in DOMAIN Arrivals(c) : i < j => Arrivals(c)[i] < Arrivals(c)[j]

\* two consumers have both events: one has sent on the first and holds the
\* second, the other holds both
C28_Witness ==
  \E c, d \in Consumers :
    /\ Len(delivered[c]) = 1 /\ Len(queue[c]) = 1
    /\ Len(Arrivals(c)) = 2
    /\ Len(queue[d]) = 2 /\ Len(Arrivals(d)) = 2

\* a text holds the interrupted marker
Interrupted(e) ==
  e.type = "textOutput" /\ "{ \"interrupted\" : true }" \in e.text

\* C29: a textOutput whose content holds the interrupted marker sets the
\* barge-in flag of the session and is never delivered to a client as a
\* transcript, on the SSE stream or on the WebSocket.
C29_InterruptedTextFiltered ==
  \A c \in Consumers :
    /\ \A i \in DOMAIN queue[c] : Interrupted(queue[c][i]) => barge_in
    /\ \A i \in DOMAIN delivered[c] :
         delivered[c][i].kind = "transcript" => ~Interrupted(delivered[c][i].src)

\* an SSE consumer and the WebSocket consumer are both about to take an
\* interrupted text from their queues
C29_Witness ==
  /\ barge_in
  /\ \E c \in Consumers :
       /\ Kind(c) = "sse" /\ cons[c] = "attached"
       /\ queue[c] # <<>> /\ Interrupted(Head(queue[c]))
  /\ \E c \in Consumers :
       /\ Kind(c) = "ws" /\ cons[c] = "attached"
       /\ queue[c] # <<>> /\ Interrupted(Head(queue[c]))

(***************************************************************************)
(* Claims about functions called on their own, checked under SpecLib.      *)
(***************************************************************************)
\* s holds p as a run of consecutive characters
Contains(s, p) ==
  \E i \in 1..(Len(s) - Len(p) + 1) : SubSeq(s, i, i + Len(p) - 1) = p

\* C21: for every text handed to log_check, the stored text_snippet holds
\* no literal occurrence of an SSN, phone number or e-mail address that
\* occurs in the text, wherever the string lies relative to the cut into
\* the first 20 and the last 20 characters.
C21_SnippetHoldsNoPii ==
  libCall.fn = "create_snippet"
  => ~Contains(libCall.ret, PiiStrings[libCall.arg.pii])

(***************************************************************************)
(* Claims about the audit log directory, checked under SpecAudit.          *)
(***************************************************************************)
\* the places <<day, line number>> of the stored records
Stored == {w \in Days \X (1..MaxLogChecks) : w[2] <= Len(log_files[w[1]])}

StoredAt(w) == log_files[w[1]][w[2]]

\* the place of the stored record a returned entry was read from
PlaceOf(entry) == CHOOSE w \in Stored : StoredAt(w).timestamp = entry.timestamp

\* place v lies before place w: an earlier day, or the same file further up
Before(v, w) == v[1] < w[1] \/ (v[1] = w[1] /\ v[2] < w[2])

C23_LoadGuardrailsCache ==
  [][(libCall.fn = "none" /\ libCall'.fn = "load_guardrails")
       => LET ret == libCall'.ret
              reload == \/ libCall'.arg.force_reload
                        \/ ~config_cache.present
                        \/ xlsx_file.mtime > config_cache.file_modified
          IN /\ (config_cache.present \/ ~LoadFile.raised)
                  => (~ret.raised /\ ret.present /\ ret = config_cache')
             /\ (reload /\ ~LoadFile.raised)
                  => /\ ret.generation = xlsx_file.generation
                     /\ ret.file_modified = xlsx_file.mtime
             /\ (~reload \/ LoadFile.raised) => config_cache' = config_cache]_vars

\* the rows of a workbook whose enabled cell reads as b
RowsEnabled(wb, b) == {i \in DOMAIN wb.rows : ParseEnabled(wb.rows[i].enabled) = b}

\* the workbook has the rules sheet with every required column, and the
\* pattern_type and severity of every row are of the closed sets
ValidTable(wb) ==
  /\ "rules_v1" \in wb.sheets
  /\ \A c \in {"rule_id", "category", "pattern_type", "pattern", "severity",
                "action_message", "noncompliance_description", "enabled"} :
       c \in wb.columns
  /\ \A i \in DOMAIN wb.rows :
       /\ wb.rows[i].pattern_type \in {"regex", "keyword", "llm_hint"}
       /\ wb.rows[i].severity \in {"block", "rewrite", "warn"}

LookupKey == StrLower(StrStrip(libCall.arg.name))

\* entry k of the static table matches the input exactly, or in part
ExactEntry(k) == StrLower(HcpNameToIdMap[k].name) = LookupKey

PartialEntry(k) ==
  \/ Contains(StrLower(HcpNameToIdMap[k].name), LookupKey)
  \/ Contains(LookupKey, StrLower(HcpNameToIdMap[k].name))

\* what the static table answers: the id of the exact match, else of the
\* first partial match in declaration order, else nothing
StaticAnswer ==
  IF \E k \in DOMAIN HcpNameToIdMap : ExactEntry(k)
    THEN {HcpNameToIdMap[k].id : k \in {j \in DOMAIN HcpNameToIdMap : ExactEntry(j)}}
  ELSE {HcpNameToIdMap[k].id :
          k \in {j \in DOMAIN HcpNameToIdMap :
                   PartialEntry(j) /\ \A i \in 1..(j - 1) : ~PartialEntry(i)}}

LookupPolicy ==
  LET ret == libCall.ret IN
    /\ libCall.arg.redshift = "row"
         => (ret.found /\ ret.source = "redshift" /\ ret.hcp_id = RedshiftRow.hcp_id)
    /\ (libCall.arg.redshift # "row" /\ StaticAnswer # {})
         => (ret.found /\ ret.source = "static" /\ ret.hcp_id \in StaticAnswer)
    /\ ~ret.found <=> (libCall.arg.redshift # "row" /\ StaticAnswer = {})

\* C25: the lookup handler reports source redshift when the primary store
\* finds a match; when that store fails or misses it reports, with source
\* static, the case-insensitive exact match of the static table or else
\* the first entry in declaration order whose name contains or is
\* contained in the input; found is false only when both miss.
C25_LookupPolicy ==
  libCall.fn = "lookupHcpTool" => LookupPolicy

\* C25, amended: the same for a name of at least two characters once
\* trimmed; a shorter name is answered with found false and an error,
\* whatever the stores hold.
C25_LookupPolicyOfValidNames ==
  libCall.fn = "lookupHcpTool"
  => IF Len(LookupKey) >= 2 THEN LookupPolicy
     ELSE ~libCall.ret.found /\ "error" \in DOMAIN libCall.ret

\* a partial match that several entries of the static table satisfy, after
\* the primary store failed
C25_Witness ==
  /\ libCall.fn = "lookupHcpTool" /\ libCall.arg.redshift = "raises"
  /\ libCall.ret.found /\ libCall.ret.source = "static"
  /\ ~\E k \in DOMAIN HcpNameToIdMap : ExactEntry(k)
  /\ Cardinality({k \in DOMAIN HcpNameToIdMap : PartialEntry(k)}) >= 2

\* C26: every lookupHcpTool result with found = true carries the full name
\* of the matched HCP in a field name, for an exact and a partial match
\* alike.
C26_FoundResultCarriesName ==
  (libCall.fn = "lookupHcpTool" /\ libCall.ret.found)
  => "name" \in DOMAIN libCall.ret

(***************************************************************************)
(* Claims about the audio a client submits, checked under SpecAudioInput.  *)
(***************************************************************************)
\* the positions of the audioInput events on the provider stream
AudioSent == {i \in DOMAIN sent : sent[i].ev = "audioInput"}

Unfilled(slot) == slots[slot] = "None" \/ slots[slot] = ""

\* C30: get_next_question returns the question of the first required slot,
\* in the order hcp_name, date, time, product, that is not filled (null or
\* the empty string), and none exactly when all four are filled; the
\* answer is a function of the four required slots alone, so setting any
\* other slot never changes it.
C30_NextQuestion ==
  libCall.fn = "get_next_question"
  => libCall.ret =
       (IF Unfilled("hcp_name")
          THEN "Could you please tell me the name of the healthcare professional you met with?"
        ELSE IF Unfilled("date") THEN "What date did this meeting take place?"
        ELSE IF Unfilled("time") THEN "What time was the meeting?"
        ELSE IF Unfilled("product")
          THEN "Which product did you discuss during the meeting?"
        ELSE "None")

\* the question for the time, asked while the date is False, the product is
\* the empty string and another slot has been set
C30_Witness ==
  /\ libCall.fn = "get_next_question"
  /\ libCall.ret = "What time was the meeting?"
  /\ slots.date = "False" /\ slots.time = "" /\ slots.product = ""
  /\ slots.hcp_id # "None" /\ slots.call_notes # ""

(***************************************************************************)
(* Provider errors in the response loop (services/nova_sonic_client.py)    *)
(***************************************************************************)
\* what the registry and the client hold of session s
SessionState(s) ==
  [active |-> is_active[s], status |-> session_info[s], stored |-> s \in sessions]

\* C32: after an unrecoverable provider receive error in a session's
\* response loop that session is no longer active, and the state of every
\* other session is unchanged
C32_ReceiveErrorEndsOnlyThatSession ==
  [][(respPc = "recv" /\ respPc' = "failed") =>
       /\ ~is_active'[StreamSid]
       /\ \A s \in Sids \ {StreamSid} : SessionState(s)' = SessionState(s)]_vars

\* the other sessions alone: a receive error leaves them as they were
C32_OtherSessionsUnchanged ==
  [][(respPc = "recv" /\ respPc' = "failed") =>
       \A s \in Sids \ {StreamSid} : SessionState(s)' = SessionState(s)]_vars

(***************************************************************************)
(* check() and the generations of the configuration (app/guardrails.py)    *)
(***************************************************************************)
\* C33: every check call evaluates the language policy and the rules of one
\* and the same loaded generation
C33_CheckReadsOneGeneration ==
  (check_call.pc = "returned" /\ check_call.rules # 0)
    => check_call.policy = check_call.rules

(***************************************************************************)
(* The cache of load_guardrails when a reload fails, under SpecLoader      *)
(***************************************************************************)
\* the cached configuration is that of one valid workbook: every row of it,
\* and nothing else
FullyValidated(cache) ==
  /\ ~cache.raised
  /\ \E name \in DOMAIN StoredWorkbooks :
       LET wb == StoredWorkbooks[name]
       IN /\ ValidTable(wb)
          /\ Len(cache.rules) = Len(wb.rows)
          /\ \A i \in DOMAIN wb.rows :
               /\ cache.rules[i].category = wb.rows[i].category
               /\ cache.rules[i].pattern_type = wb.rows[i].pattern_type
               /\ cache.rules[i].severity = wb.rows[i].severity

\* a load_guardrails call whose reload, forced or triggered by a change of
\* the file, fails in this step
ReloadFails ==
  /\ libCall.fn = "none"
  /\ libCall'.fn = "load_guardrails"
  /\ libCall'.arg.force_reload \/ xlsx_file.mtime > config_cache.file_modified
  /\ Load(StoredWorkbooks[xlsx_file.workbook]).raised

\* C40: when a forced or change-triggered reload fails, the error
\* propagates to the caller and the cached generation is left unchanged; in
\* every reachable state the cache is either empty or holds one fully
\* validated generation
C40_FailedReloadKeepsCache ==
  /\ [](config_cache.present => FullyValidated(config_cache))
  /\ [][ReloadFails => (libCall'.ret.raised /\ config_cache' = config_cache)]_vars

\* a reload has failed on the caller while a generation was cached
C40_Witness ==
  /\ libCall.fn = "load_guardrails"
  /\ libCall.ret.raised
  /\ config_cache.present
  /\ xlsx_file.workbook = "broken"

(***************************************************************************)
(* The role of a transcript on the SSE stream, under SpecSubscribers       *)
(***************************************************************************)
\* the role of the contentStart that preceded event e in the provider
\* stream, as event_generator defaults and lowers it
TurnRole(e) == Lower(IF e.turn = NoRole THEN "assistant" ELSE e.turn)

\* C38: the role the SSE consumer uses for a textOutput (it decides whether
\* the text is guardrail-checked, and is sent as the speaker) is the role of
\* the contentStart that preceded that textOutput in the provider stream,
\* also when the response loop has handled later events before the
\* consumer dequeues it
C38_SseRoleIsRoleOfTurn ==
  \A c \in Consumers : \A i \in DOMAIN delivered[c] :
    (Kind(c) = "sse" /\ delivered[c][i].kind = "transcript")
      => delivered[c][i].speaker = TurnRole(delivered[c][i].src)

(***************************************************************************)
(* The audio of the SSE stream, under SpecSubscribers                      *)
(***************************************************************************)
\* a transcript that carries the guardrail action message in place of the
\* provider's text
Replaced(d) == d.kind = "transcript" /\ d.text # d.src.text

\* consumer c takes the next event from its queue in this step
Dequeues(c) ==
  /\ cons[c] = "attached"
  /\ queue[c] # <<>>
  /\ queue'[c] = Tail(queue[c])

\* consumer c is sent a replaced transcript in this step
SendsReplaced(c) ==
  /\ Dequeues(c)
  /\ Len(delivered'[c]) = Len(delivered[c]) + 1
  /\ Replaced(delivered'[c][Len(delivered'[c])])

SseConsumers == {c \in Consumers : Kind(c) = "sse"}

\* an audioOutput is passed on exactly when the flag is not set; the flag is
\* set by a replaced transcript, by nothing else, and is never cleared
AudioFollowsFlag ==
  /\ \A c \in SseConsumers :
       (Dequeues(c) /\ Head(queue[c]).type = "audioOutput")
         => delivered'[c] =
              IF suppress_next_audio THEN delivered[c]
              ELSE Append(delivered[c],
                          OutMessage("audio", NoRole, NoText, Head(queue[c])))
  /\ suppress_next_audio => suppress_next_audio'
  /\ (\E c \in SseConsumers : SendsReplaced(c)) => suppress_next_audio'
  /\ (suppress_next_audio' /\ ~suppress_next_audio)
       => \E c \in SseConsumers : SendsReplaced(c)

\* no SSE consumer is sent an audio after a replaced transcript
NoAudioAfterReplaced ==
  \A c \in SseConsumers : \A i, j \in DOMAIN delivered[c] :
    (i < j /\ Replaced(delivered[c][i])) => delivered[c][j].kind # "audio"

LoopEnded == respPc \in {"done", "failed", "cancelled"}

\* C37: every output consumer attached to a session eventually stops,
\* after the session is closed, after the provider stream ends, and after
\* the response loop reports a provider error
C37_ConsumersStop ==
  \A c \in OneOfEach :
    (cons[c] = "attached" /\ LoopEnded) ~> (cons[c] = "ended")

\* the same of the SSE consumers alone
C37_SseConsumersStop ==
  \A c \in {"sse1"} :
    (cons[c] = "attached" /\ LoopEnded) ~> (cons[c] = "ended")

\* the same of every consumer when the loop ended without an error
C37_ConsumersStopWithoutError ==
  \A c \in OneOfEach :
    (cons[c] = "attached" /\ respPc \in {"done", "cancelled"}) ~> (cons[c] = "ended")

(***************************************************************************)
(* Overlapping end_session calls (services/session_manager.py), under      *)
(* SpecOverlap, where no close() raises                                    *)
(***************************************************************************)
\* the end_session call of e returns in this step
EndSessionReturns(e) == endPc[e] = "closing" /\ endSid'[e] # endSid[e]

\* another end_session call for the session e is closing has finished
\* while e was inside close()
Overlapped(e) == endSid[e] \notin sessions

\* C36: when two end_session calls for the same session overlap (the idle
\* sweep and a client's end request), the session finishes with status
\* ended, not error.  (The closing events the two close() calls send are
\* counted by C8_ClosingEventsAtMostOnce.)
C36_OverlappingEndSessionEndsCleanly ==
  [][\A e \in Enders :
       (EndSessionReturns(e) /\ Overlapped(e))
         => session_info'[endSid[e]] = "ended"]_vars

\* every end_session call that overlaps no other leaves the status ended
C36_EndSessionAloneEndsCleanly ==
  [][\A e \in Enders :
       (EndSessionReturns(e) /\ ~Overlapped(e))
         => session_info'[endSid[e]] = "ended"]_vars

(***************************************************************************)
(* close() of a session (services/nova_sonic_client.py), under SpecClose   *)
(***************************************************************************)
\* the places of an event in what the provider stream was sent
PlacesSent(e) == {i \in DOMAIN sent : sent[i] = e}

\* the response loop is not running
LoopStopped == respPc \in {"none", "done", "failed", "cancelled"}

\* close() sends its events with the response loop stopped, in the order
\* audio contentEnd, promptEnd, sessionEnd
ClosingOrder ==
  /\ (closePc["k1"] \in {"ce", "pe", "se", "release"}) => LoopStopped
  /\ \A j \in PlacesSent(ClosingEvent("pe")) :
       \E i \in PlacesSent(ClosingEvent("ce")) : i < j
  /\ \A j \in PlacesSent(ClosingEvent("se")) :
       \E i \in PlacesSent(ClosingEvent("pe")) : i < j

\* sessionEnd is the last event sent
NothingAfterSessionEnd ==
  \A i \in PlacesSent(ClosingEvent("se")) : i = Len(sent)

\* C35: close() on an active session stops the response loop and then sends
\* the audio contentEnd, promptEnd and sessionEnd in this order, and after
\* sessionEnd no further event is sent on the session's provider stream,
\* audio chunks submitted before close included
C35_CloseSendsClosingEventsLast ==
  ClosingOrder /\ NothingAfterSessionEnd

\* the audio chunks alone: none is sent after sessionEnd
C35_NoAudioAfterSessionEnd ==
  \A i \in PlacesSent(ClosingEvent("se")) :
    \A j \in DOMAIN sent : sent[j].ev = "audioInput" => j < i

(***************************************************************************)
(* Keyword rules (app/guardrails.py)                                       *)
(***************************************************************************)
\* keyword k occurs in text t as a whole word: an occurrence of a keyword
\* that is not empty, with no word character right before it and none right
\* after it
OccursAsWholeWord(k, t) ==
  \E i \in 1..(Len(t) + 1 - Len(k)) :
    /\ k # <<>>
    /\ SubSeq(t, i, i + Len(k) - 1) = k
    /\ CharAt(t, i - 1) \notin WordChars
    /\ CharAt(t, i + Len(k)) \notin WordChars

\* the keywords of the rule that occur in the text, by their place in the list
Occurring(pattern, text) ==
  {k \in DOMAIN Keywords(pattern) :
     OccursAsWholeWord(Keywords(pattern)[k], StrLower(text))}

KeywordRuleAsStated(pattern, text, ret) ==
  /\ ret.violated <=> Occurring(pattern, text) # {}
  /\ ret.violated =>
       ret.matched_text = Keywords(pattern)[Least(Occurring(pattern, text))]

\* C34: a keyword rule yields a violation exactly when at least one of its
\* comma-separated keywords (trimmed, lowercased) occurs as a whole word in
\* the lowercased text, and matched_text is the first such keyword in list
\* order
C34_KeywordRule ==
  libCall.fn = "_check_rule" =>
    KeywordRuleAsStated(libCall.arg.pattern, libCall.arg.text, libCall.ret)

\* a keyword list whose items are not empty and begin and end with a word
\* character
WellFormed(pattern) ==
  \A k \in DOMAIN Keywords(pattern) :
    LET w == Keywords(pattern)[k]
    IN w # <<>> /\ w[1] \in WordChars /\ w[Len(w)] \in WordChars

\* the statement of C34 for the lists that are well formed
C34_KeywordRuleOfWellFormedLists ==
  (libCall.fn = "_check_rule" /\ WellFormed(libCall.arg.pattern)) =>
    KeywordRuleAsStated(libCall.arg.pattern, libCall.arg.text, libCall.ret)

(***************************************************************************)
(* The output record of a conversation session (app/prompting.py)          *)
(***************************************************************************)
\* the summary has been read back and confirmed by the user
SummaryConfirmed == summary_read_back \/ "summary" \in confirmed_slots

\* C31: in every reachable state in which output_json is set, no required
\* slot is missing and the summary has been confirmed
C31_OutputOnlyWhenComplete ==
  output_json.present =>
    /\ GetMissingRequiredSlots = <<>>
    /\ SummaryConfirmed

====
